---- MODULE Spec2Model ----
(***************************************************************************)
(* Model of the paladin-plugins orchestrator: src/paladin-plugins.py and   *)
(* src/core/main.py (plugin registry, exec_pipeline, init_plugins and the  *)
(* send_output / render_output buffers).                                   *)
(*                                                                         *)
(*   Spec         the main script: the listing mode, or                    *)
(*                exec_pipeline(pipeline), the final flush and the         *)
(*                finally block                                            *)
(*   SpecChain    the main script on a registry with a two-level chain of  *)
(*                dependencies                                             *)
(*   SpecOutput   send_output, render_output and the console switches,     *)
(*                called in any order                                      *)
(*   SpecResolve  init_plugins(plugins)                                    *)
(*   SpecConnect  connect_plugins(debug)                                   *)
(*   SpecFile     src/core/filestore.py: FileStore entries, prepare,       *)
(*                get_handle and destroy                                   *)
(*   SpecData     src/core/datastore.py: DataStore instances, writes,      *)
(*                transactions, queries and destroy                        *)
(*   SpecRows     insert_rows on a table with a primary key                *)
(*   SpecAge      update_age and get_expired as time passes                *)
(*   SpecRefresh  src/plugins/crossref.py: populate_database over several  *)
(*                process runs, with interruptions                         *)
(*   SpecRetrieve src/plugins/uniprot.py: the retry loop of retrieve_data  *)
(*                                                                         *)
(* Python strings are modelled as sequences of tokens, so that formatting, *)
(* joining and quote stripping are computed and not assumed.               *)
(***************************************************************************)
EXTENDS Integers, Sequences, FiniteSets, TLC

\* ------------------------------------------------------------------ bounds
\* Longest pipeline given on the command line.
MaxSteps == 2
\* Number of send_output calls the plugin hooks make in one process.
MaxSend == 2

\* ----------------------------------------------------------------- strings
QUOTE == "\""
NL == "\n"
EmptyStr == << >>

RECURSIVE Join(_)
\* "".join(list)
Join(list) == IF list = << >> THEN << >> ELSE Head(list) \o Join(Tail(list))

RECURSIVE LStrip(_)
LStrip(s) == IF s # << >> /\ Head(s) = QUOTE THEN LStrip(Tail(s)) ELSE s

RECURSIVE RStrip(_)
RStrip(s) ==
    IF s # << >> /\ s[Len(s)] = QUOTE THEN RStrip(SubSeq(s, 1, Len(s) - 1)) ELSE s

\* str.strip("\"")
Strip(s) == RStrip(LStrip(s))

\* Mutant: the message does not format the plugin name in.
InvalidPluginTextNoName(name) == <<"Invalid plugin ", QUOTE, QUOTE>>

\* "Invalid plugin \"{0}\"".format(name)
InvalidPluginText(name) == <<"Invalid plugin ", QUOTE, name, QUOTE>>

\* ---------------------------------------------------------------- registry
\* PluginDef as populated by each module's plugin_connect.
PluginDef(deps, cargs, cinit, cmain) ==
    [dependencies |-> deps, callback_args |-> cargs,
     callback_init |-> cinit, callback_main |-> cmain]

uniprot == PluginDef(<< >>, TRUE, FALSE, TRUE)
pathways == PluginDef(<<"taxonomy">>, TRUE, TRUE, TRUE)
difference == PluginDef(<<"taxonomy">>, TRUE, FALSE, TRUE)
crossref == PluginDef(<< >>, TRUE, TRUE, TRUE)
\* taxonomy.py still exposes pluginConnect; this is its definition once the
\* module exposes plugin_connect like the other four.
taxonomy == PluginDef(<< >>, FALSE, TRUE, TRUE)

\* Modules of the plugins package that expose plugin_connect.
ConnectedModules ==
    ("uniprot" :> uniprot) @@ ("pathways" :> pathways) @@
    ("difference" :> difference) @@ ("crossref" :> crossref)

\* The package contents are an input of connect_plugins: the repository as it
\* is, and the repository with the taxonomy module connected.
Registries == {ConnectedModules, ConnectedModules @@ ("taxonomy" :> taxonomy)}

\* internal_plugins after connect_plugins.
internal_plugins == {"flush", "write"}

\* ------------------------------------------------------------------ inputs
ArgsOk == <<"-i", "in">>
ArgsOther == <<"-q", "1">>
ArgsHelp == <<"-h">>
QuotedOut == <<QUOTE, "out", QUOTE>>

\* (plugin, argument string) pairs as get_pipeline produces them.
Tasks ==
    {<<"flush", EmptyStr>>, <<"write", QuotedOut>>,
     <<"uniprot", ArgsHelp>>, <<"pathways", ArgsOk>>,
     <<"crossref", ArgsOk>>, <<"taxonomy", ArgsOther>>,
     <<"doesnotexist", EmptyStr>>}

RECURSIVE SeqsUpTo(_, _)
SeqsUpTo(S, n) ==
    IF n = 0 THEN {<< >>}
    ELSE LET shorter == SeqsUpTo(S, n - 1)
         IN  shorter \cup {Append(s, x) : s \in shorter, x \in S}

Pipelines == SeqsUpTo(Tasks, MaxSteps)

SendTexts == {<<"a">>, <<"b">>}
\* The text of the n-th send_output call of the plugin hooks: all different.
HookText(n) == <<"line", ToString(n)>>
Suffixes == {<<NL>>, EmptyStr}
Targets == {"stdout", "stderr"}

\* ------------------------------------------------------------------- state
VARIABLES
    plugin_modules,   \* core.main.plugin_modules: name -> PluginDef
    pipeline,         \* the pipeline handed to exec_pipeline
    pc,               \* position of the main script / exec_pipeline
    task,             \* index of the current task of the for loop
    dep,              \* index of the current dependency of the task
    args,             \* local variable args of exec_pipeline
    output_stdout,    \* core.main.output_stdout
    output_stderr,    \* core.main.output_stderr
    console_stdout,   \* core.main.console_stdout
    console_stderr,   \* core.main.console_stderr
    sys_stdout,       \* text written to sys.stdout
    sys_stderr,       \* text written to sys.stderr
    files,            \* files written by render_output: name -> text
    exit_status,      \* exit status or uncaught exception of the process
    plugins,          \* init_plugins: the requested plugin names
    todo,             \* init_plugins: names the current loop has not visited
    init_queue,       \* init_plugins: init_queue
    init_history,     \* init_plugins: init_history
    result,           \* init_plugins: the return value or the exception
    calls,            \* history: hooks and internal functions invoked
    sends,            \* history: number of send_output calls made
    sent,             \* history: per target, the fragments buffered
    rendered,         \* history: per target, the texts rendered
    last,             \* history: the last buffer operation
    debug,            \* connect_plugins: the debug argument
    modules,          \* connect_plugins: what pkgutil.iter_modules yields
    internals,        \* names registered in core.main.internal_plugins
    temp_path,        \* whether the directory FileStore._temp_path exists
    file_entries,     \* FileStore._entries: <<group, fid>> -> entry object
    file_objects,     \* the FileStore objects constructed so far
    handles,          \* the file objects opened by get_handle so far
    disk,             \* the file system: path -> file content
    flast,            \* history: the last FileStore call
    data_entries,     \* DataStore._entries: name -> DataStore object
    instances,        \* the DataStore objects constructed so far
    db,               \* the databases: filename -> committed writes
    dlast,            \* history: the last DataStore call
    clock,            \* CURRENT_TIMESTAMP, in ticks
    lines_read,       \* populate_database: lines of the handle consumed
    run,              \* number of the process run using the database
    entries_len,      \* retrieve_data: len(entries)
    batch,            \* retrieve_data: the batch argument
    max_retry,        \* retrieve_data: the max_retry argument
    batch_idx,        \* retrieve_data: batch_idx of the for loop
    retry,            \* retrieve_data: the local variable retry
    attempts          \* history: per batch, the requests attempted

vars == <<plugin_modules, pipeline, pc, task, dep, args, output_stdout,
          output_stderr, console_stdout, console_stderr, sys_stdout,
          sys_stderr, files, exit_status, plugins, todo, init_queue,
          init_history, result, calls, sends, sent, rendered, last, debug,
          modules, internals, temp_path, file_entries, file_objects, handles,
          disk, flast, data_entries, instances, db, dlast, clock,
          lines_read, run, entries_len, batch, max_retry, batch_idx, retry, attempts>>

discovery == <<debug, modules, internals>>
filestore == <<temp_path, file_entries, file_objects, handles, disk, flast>>
datastore == <<data_entries, instances, db, dlast>>
\* The clock and the locals of the plugins' functions populate_database and
\* retrieve_data.
locals == <<clock, lines_read, run, entries_len, batch, max_retry,
            batch_idx, retry, attempts>>

\* What exec_pipeline and the output API never assign: the registry, the
\* pipeline, the locals of init_plugins, and the state of connect_plugins,
\* FileStore and DataStore.
registry == <<plugin_modules, pipeline, plugins, todo, init_queue,
              init_history, result, discovery, filestore, datastore,
              locals>>
buffers == <<output_stdout, output_stderr>>
switches == <<console_stdout, console_stderr>>
streams == <<sys_stdout, sys_stderr, files>>
history == <<sends, sent, rendered, last>>

Unbound == [unbound |-> TRUE]
NoOp == [op |-> "none", text |-> << >>, target |-> "none", suffix |-> << >>,
         filename |-> << >>, cout |-> FALSE, cerr |-> FALSE,
         buffered |-> FALSE]
NoneSent == [t \in Targets |-> << >>]
NoCall == [op |-> "none", n |-> 0]

\* No plugin function has been entered: the clock at its origin, no line
\* read and no request made.
Idle ==
    /\ clock = 0
    /\ lines_read = 0
    /\ run = 1
    /\ entries_len = 0
    /\ batch = 1
    /\ max_retry = 0
    /\ batch_idx = 0
    /\ retry = 0
    /\ attempts = << >>

\* The state connect_plugins leaves behind when every module loads: both
\* internal plugins registered and the temporary directory created, no
\* FileStore entry and no DataStore registered yet.
Connected ==
    /\ debug = FALSE
    /\ modules = << >>
    /\ internals = internal_plugins
    /\ temp_path = TRUE
    /\ file_entries = << >>
    /\ file_objects = << >>
    /\ handles = << >>
    /\ disk = << >>
    /\ flast = NoCall
    /\ data_entries = << >>
    /\ instances = << >>
    /\ db = << >>
    /\ dlast = NoCall
    /\ Idle

\* --------------------------------------------------------- output buffers
\* Mutant: the suffix is not added to the text.
send_output_nosuffix(output_text, target, suffix, out, err, so, se, cout, cerr) ==
    LET new_content == output_text
    IN  IF target = "stdout"
        THEN IF cout
             THEN <<out, err, so \o new_content, se>>
             ELSE <<Append(out, new_content), err, so, se>>
        ELSE IF cerr
             THEN <<out, err, so, se \o new_content>>
             ELSE <<out, Append(err, new_content), so, se>>

\* Mutant: the stderr branch tests console_stdout.
send_output_shared(output_text, target, suffix, out, err, so, se, cout, cerr) ==
    LET new_content == output_text \o suffix
    IN  IF target = "stdout"
        THEN IF cout
             THEN <<out, err, so \o new_content, se>>
             ELSE <<Append(out, new_content), err, so, se>>
        ELSE IF cout
             THEN <<out, err, so, se \o new_content>>
             ELSE <<out, Append(err, new_content), so, se>>

\* send_output(output_text, target, suffix): the new values of
\* <<output_stdout, output_stderr, sys_stdout, sys_stderr>>.
send_output(output_text, target, suffix, out, err, so, se, cout, cerr) ==
    LET new_content == output_text \o suffix
    IN  IF target = "stdout"
        THEN IF cout
             THEN <<out, err, so \o new_content, se>>
             ELSE <<Append(out, new_content), err, so, se>>
        ELSE IF cerr
             THEN <<out, err, so, se \o new_content>>
             ELSE <<out, Append(err, new_content), so, se>>

\* Mutant: the buffer is not emptied after the join.
render_output_keep(filename, target, out, err, so, se, fs) ==
    LET render_text == IF target = "stdout" THEN Join(out) ELSE Join(err)
    IN  IF filename = EmptyStr
        THEN IF target = "stdout"
             THEN <<render_text, out, err, so \o render_text \o <<NL>>, se, fs>>
             ELSE <<render_text, out, err, so, se \o render_text \o <<NL>>, fs>>
        ELSE <<render_text, out, err, so, se,
               [n \in DOMAIN fs \cup {filename} |->
                   IF n = filename THEN render_text ELSE fs[n]]>>

\* render_output(filename, target): render_text and the new values of
\* <<output_stdout, output_stderr, sys_stdout, sys_stderr, files>>.
\* print(render_text, file=std_target) writes the text and a newline.
render_output(filename, target, out, err, so, se, fs) ==
    LET render_text == IF target = "stdout" THEN Join(out) ELSE Join(err)
        out2 == IF target = "stdout" THEN << >> ELSE out
        err2 == IF target = "stderr" THEN << >> ELSE err
    IN  IF filename = EmptyStr
        THEN IF target = "stdout"
             THEN <<render_text, out2, err2, so \o render_text \o <<NL>>, se, fs>>
             ELSE <<render_text, out2, err2, so, se \o render_text \o <<NL>>, fs>>
        ELSE <<render_text, out2, err2, so, se,
               [n \in DOMAIN fs \cup {filename} |->
                   IF n = filename THEN render_text ELSE fs[n]]>>

\* ------------------------------------------------------------------- Init
Init ==
    /\ plugin_modules \in Registries
    /\ pipeline \in Pipelines
    /\ pc \in {"task", "list"}
    /\ pc = "list" => pipeline = << >>
    /\ task = 1
    /\ dep = 1
    /\ args = Unbound
    /\ output_stdout = << >>
    /\ output_stderr = << >>
    /\ console_stdout = FALSE
    /\ console_stderr = TRUE
    /\ sys_stdout = << >>
    /\ sys_stderr = << >>
    /\ files = << >>
    /\ exit_status = "running"
    /\ plugins = {}
    /\ todo = {}
    /\ init_queue = {}
    /\ init_history = {}
    /\ result = "none"
    /\ calls = << >>
    /\ sends = 0
    /\ sent = NoneSent
    /\ rendered = NoneSent
    /\ last = NoOp
    /\ Connected

\* ------------------------------------------------------------ exec_pipeline
\* Mutant: the loop walks the pipeline from its end.
TaskAtReversed(pl, i) == pl[Len(pl) + 1 - i]

\* for task in pipeline: the task the loop handles at its i-th iteration.
TaskAt(pl, i) == pl[i]

CurrentTask == TaskAt(pipeline, task)
CurrentName == CurrentTask[1]
CurrentArgs == CurrentTask[2]
CurrentDef == plugin_modules[CurrentName]

InLoop == pc = "task" /\ task <= Len(pipeline)

\* A hook or internal function invoked while handling task i.
Call(i, name, hook, value) ==
    [task |-> i, plugin |-> name, hook |-> hook, args |-> value]

\* argparse: parse_known_args(shlex.split(sub_args)); "-h" prints the help
\* and leaves the process with status 0.
IsHelp(s) == \E k \in DOMAIN s : s[k] = "-h"
ParseArgs(s) == [namespace |-> s, unknown |-> << >>]

\* History of one buffer operation: its inputs, the switches it found and
\* whether it made a buffer longer.
SendOp(text, target, suffix, out, err) ==
    [op |-> "send", text |-> text, target |-> target, suffix |-> suffix,
     filename |-> EmptyStr, cout |-> console_stdout, cerr |-> console_stderr,
     buffered |-> Len(out) + Len(err) > Len(output_stdout) + Len(output_stderr)]
RenderOp(text, target, filename) ==
    [op |-> "render", text |-> text, target |-> target, suffix |-> EmptyStr,
     filename |-> filename, cout |-> console_stdout, cerr |-> console_stderr,
     buffered |-> FALSE]

Console(target) == IF target = "stdout" THEN console_stdout ELSE console_stderr

\* History of the fragments handed to a buffered target.
Sent(target, text, suffix) ==
    IF Console(target) THEN sent
    ELSE [sent EXCEPT ![target] = Append(@, text \o suffix)]

\* History of the texts rendered from a target.
Rendered(target, text) == [rendered EXCEPT ![target] = Append(@, text)]

\* open(filename, "w") of render_output returns a handle or raises OSError;
\* without a filename nothing is opened.
OpenOutcomes(filename) == IF filename = EmptyStr THEN {TRUE} ELSE BOOLEAN

\* Internal plugin: internal_plugins[task[0]](task[1].strip("\"")).
ExecInternal ==
    /\ InLoop
    /\ CurrentName \in internal_plugins
    /\ LET filename == Strip(CurrentArgs)
           r == render_output(filename, "stdout", output_stdout,
                              output_stderr, sys_stdout, sys_stderr, files)
       IN  /\ output_stdout' = r[2]
           /\ output_stderr' = r[3]
           /\ last' = RenderOp(r[1], "stdout", filename)
           /\ calls' = Append(calls, Call(task, CurrentName, "internal", filename))
           /\ \E opened \in OpenOutcomes(filename) :
                 IF opened
                 THEN /\ sys_stdout' = r[4]
                      /\ sys_stderr' = r[5]
                      /\ files' = r[6]
                      /\ rendered' = Rendered("stdout", r[1])
                      /\ task' = task + 1
                      /\ UNCHANGED <<pc, exit_status>>
                 ELSE /\ pc' = "finally"
                      /\ exit_status' = "OSError"
                      /\ UNCHANGED <<streams, rendered, task>>
    /\ UNCHANGED <<registry, dep, args, switches, sends, sent>>

\* External plugin: callback_args, when the plugin has one.
CallArgs ==
    /\ InLoop
    /\ CurrentName \notin internal_plugins
    /\ CurrentName \in DOMAIN plugin_modules
    /\ IF CurrentDef.callback_args
       THEN /\ calls' = Append(calls, Call(task, CurrentName, "args", CurrentArgs))
            /\ IF IsHelp(CurrentArgs)
               THEN /\ pc' = "finally"
                    /\ exit_status' = "0"
                    /\ args' = args
               ELSE /\ pc' = "resolve"
                    /\ exit_status' = exit_status
                    /\ args' = ParseArgs(CurrentArgs)
       ELSE /\ pc' = "resolve"
            /\ UNCHANGED <<calls, exit_status, args>>
    /\ UNCHANGED <<registry, task, dep, buffers, switches, streams, history>>

\* Mutant: a dependency that is not registered ends the step only, and the
\* loop goes on with the next task.
ResolveDependenciesIgnored ==
    /\ pc = "resolve"
    /\ IF \A k \in DOMAIN CurrentDef.dependencies :
              CurrentDef.dependencies[k] \in DOMAIN plugin_modules
       THEN /\ pc' = "deps"
            /\ dep' = 1
            /\ task' = task
       ELSE /\ pc' = "task"
            /\ dep' = dep
            /\ task' = task + 1
    /\ UNCHANGED <<registry, args, buffers, switches, streams, exit_status,
                   calls, history>>

\* [plugin_modules[x] for x in plugin.dependencies]
ResolveDependencies ==
    /\ pc = "resolve"
    /\ IF \A k \in DOMAIN CurrentDef.dependencies :
              CurrentDef.dependencies[k] \in DOMAIN plugin_modules
       THEN /\ pc' = "deps"
            /\ dep' = 1
            /\ exit_status' = exit_status
       ELSE /\ pc' = "finally"
            /\ dep' = dep
            /\ exit_status' = "KeyError"
    /\ UNCHANGED <<registry, task, args, buffers, switches, streams, calls, history>>

\* Mutant: the dependencies of a dependency are initialized before it.
InitDependencyTransitive ==
    /\ pc = "deps"
    /\ dep <= Len(plugin_modules[pipeline[task][1]].dependencies)
    /\ LET name == plugin_modules[pipeline[task][1]].dependencies[dep]
           inner == plugin_modules[name].dependencies
       IN  calls' = calls
                    \o [k \in DOMAIN inner |->
                           [task |-> task, plugin |-> inner[k],
                            hook |-> "init", args |-> EmptyStr]]
                    \o IF plugin_modules[name].callback_init
                       THEN <<[task |-> task, plugin |-> name,
                               hook |-> "init", args |-> EmptyStr]>>
                       ELSE << >>
    /\ dep' = dep + 1
    /\ UNCHANGED <<registry, pc, task, args, buffers, switches, streams,
                   exit_status, history>>

\* Mutant: the loop over the dependencies calls nothing.
InitDependencySkipped ==
    /\ pc = "deps"
    /\ dep <= Len(plugin_modules[pipeline[task][1]].dependencies)
    /\ dep' = dep + 1
    /\ UNCHANGED <<registry, pc, task, args, buffers, switches, streams,
                   exit_status, calls, history>>

\* for dependency in ...: dependency.callback_init(), when it has one.
InitDependency ==
    /\ pc = "deps"
    /\ dep <= Len(CurrentDef.dependencies)
    /\ LET name == CurrentDef.dependencies[dep]
       IN  calls' = IF plugin_modules[name].callback_init
                    THEN Append(calls, Call(task, name, "init", EmptyStr))
                    ELSE calls
    /\ dep' = dep + 1
    /\ UNCHANGED <<registry, pc, task, args, buffers, switches, streams,
                   exit_status, history>>

\* plugin.callback_init(), when the plugin has one.
InitPlugin ==
    /\ pc = "deps"
    /\ dep > Len(CurrentDef.dependencies)
    /\ calls' = IF CurrentDef.callback_init
                THEN Append(calls, Call(task, CurrentName, "init", EmptyStr))
                ELSE calls
    /\ pc' = "main"
    /\ UNCHANGED <<registry, task, dep, args, buffers, switches, streams,
                   exit_status, history>>

\* plugin.callback_main(args): reading args raises UnboundLocalError when no
\* earlier callback_args has assigned it.
CallMain ==
    /\ pc = "main"
    /\ IF CurrentDef.callback_main
       THEN IF args = Unbound
            THEN /\ pc' = "finally"
                 /\ exit_status' = "UnboundLocalError"
                 /\ calls' = calls
            ELSE /\ pc' = "running"
                 /\ exit_status' = exit_status
                 /\ calls' = Append(calls, Call(task, CurrentName, "main", args))
       ELSE /\ pc' = "task"
            /\ UNCHANGED <<exit_status, calls>>
    /\ task' = IF CurrentDef.callback_main THEN task ELSE task + 1
    /\ UNCHANGED <<registry, dep, args, buffers, switches, streams, history>>

\* The running callback_main calls core.main.send_output.
PluginSend ==
    /\ pc = "running"
    /\ sends < MaxSend
    /\ \E target \in Targets :
          LET text == HookText(sends + 1)
              suffix == <<NL>>
              r == send_output(text, target, suffix, output_stdout,
                               output_stderr, sys_stdout, sys_stderr,
                               console_stdout, console_stderr)
          IN  /\ output_stdout' = r[1]
              /\ output_stderr' = r[2]
              /\ sys_stdout' = r[3]
              /\ sys_stderr' = r[4]
              /\ sent' = Sent(target, text, suffix)
              /\ last' = SendOp(text, target, suffix, r[1], r[2])
    /\ sends' = sends + 1
    /\ UNCHANGED <<registry, pc, task, dep, args, switches, files,
                   exit_status, calls, rendered>>

\* The running callback_main assigns core.main.console_stdout or
\* core.main.console_stderr.
SetConsole ==
    /\ pc = "running"
    /\ \E target \in Targets :
          /\ console_stdout' = IF target = "stdout" THEN ~console_stdout
                               ELSE console_stdout
          /\ console_stderr' = IF target = "stderr" THEN ~console_stderr
                               ELSE console_stderr
    /\ UNCHANGED <<registry, pc, task, dep, args, buffers, streams,
                   exit_status, calls, history>>

\* callback_main returns and the loop goes to the next task.
ReturnMain ==
    /\ pc = "running"
    /\ pc' = "task"
    /\ task' = task + 1
    /\ UNCHANGED <<registry, dep, args, buffers, switches, streams,
                   exit_status, calls, history>>

\* Invalid plugin: send_output(..., "stderr") and sys.exit(1).
ExecInvalid ==
    /\ InLoop
    /\ CurrentName \notin internal_plugins
    /\ CurrentName \notin DOMAIN plugin_modules
    /\ LET text == InvalidPluginText(CurrentName)
           r == send_output(text, "stderr", <<NL>>, output_stdout,
                            output_stderr, sys_stdout, sys_stderr,
                            console_stdout, console_stderr)
       IN  /\ output_stdout' = r[1]
           /\ output_stderr' = r[2]
           /\ sys_stdout' = r[3]
           /\ sys_stderr' = r[4]
           /\ sent' = Sent("stderr", text, <<NL>>)
           /\ last' = SendOp(text, "stderr", <<NL>>, r[1], r[2])
    /\ pc' = "finally"
    /\ exit_status' = "1"
    /\ UNCHANGED <<registry, task, dep, args, switches, files, calls, sends,
                   rendered>>

\* ------------------------------------------------------ paladin-plugins.py
\* Mutant: the script goes to the finally block without the final flush.
FinalFlushSkipped ==
    /\ pc = "task"
    /\ task > Len(pipeline)
    /\ pc' = "finally"
    /\ exit_status' = "0"
    /\ UNCHANGED <<registry, task, dep, args, buffers, switches, streams,
                   calls, history>>

\* After exec_pipeline(pipeline) returned: exec_pipeline([("flush", "")]).
FinalFlush ==
    /\ pc = "task"
    /\ task > Len(pipeline)
    /\ LET r == render_output(Strip(EmptyStr), "stdout", output_stdout,
                              output_stderr, sys_stdout, sys_stderr, files)
       IN  /\ output_stdout' = r[2]
           /\ output_stderr' = r[3]
           /\ sys_stdout' = r[4]
           /\ sys_stderr' = r[5]
           /\ files' = r[6]
           /\ rendered' = Rendered("stdout", r[1])
           /\ last' = RenderOp(r[1], "stdout", EmptyStr)
           /\ calls' = Append(calls, Call(task, "flush", "final", EmptyStr))
    /\ pc' = "finally"
    /\ exit_status' = "0"
    /\ UNCHANGED <<registry, task, dep, args, switches, sends, sent>>

\* finally: FileStore.destroy(), then the process ends. The pipeline steps
\* modelled here register no FileStore entry, so there is no handle to
\* close and shutil.rmtree finds the directory empty.
Destroy ==
    /\ pc = "finally"
    /\ pc' = "done"
    /\ temp_path' = FALSE
    /\ UNCHANGED <<plugin_modules, pipeline, plugins, todo, init_queue,
                   init_history, result, discovery, file_entries,
                   file_objects, handles, disk, flast, datastore, locals>>
    /\ UNCHANGED <<task, dep, args, buffers, switches, streams, exit_status,
                   calls, history>>

\* arguments.list: list_plugins() prints the plugins, pipeline_present is
\* False and the script ends after it. The header line stands for the
\* listing.
ListPlugins ==
    /\ pc = "list"
    /\ sys_stdout' = sys_stdout \o <<"The following plugins are available:", NL>>
    /\ pc' = "listed"
    /\ exit_status' = "0"
    /\ UNCHANGED <<registry, task, dep, args, buffers, switches, sys_stderr,
                   files, calls, history>>

Next ==
    \/ ExecInternal
    \/ CallArgs
    \/ ResolveDependencies
    \/ InitDependency
    \/ InitPlugin
    \/ CallMain
    \/ PluginSend
    \/ SetConsole
    \/ ReturnMain
    \/ ExecInvalid
    \/ FinalFlush
    \/ Destroy
    \/ ListPlugins

Spec == Init /\ [][Next]_vars

\* ------------------------------------------------------- the output API
\* send_output, render_output and the two switches are the API of core.main
\* for plugin code. SpecOutput drives them directly, in any order.
MaxOps == 3

Filenames == {EmptyStr, <<"out">>}

\* Number of send_output and render_output calls made so far.
Ops == sends + Len(rendered["stdout"]) + Len(rendered["stderr"])

InitOutput ==
    /\ plugin_modules = ConnectedModules
    /\ pipeline = << >>
    /\ pc = "api"
    /\ task = 1
    /\ dep = 1
    /\ args = Unbound
    /\ output_stdout = << >>
    /\ output_stderr = << >>
    /\ console_stdout = FALSE
    /\ console_stderr = TRUE
    /\ sys_stdout = << >>
    /\ sys_stderr = << >>
    /\ files = << >>
    /\ exit_status = "running"
    /\ plugins = {}
    /\ todo = {}
    /\ init_queue = {}
    /\ init_history = {}
    /\ result = "none"
    /\ calls = << >>
    /\ sends = 0
    /\ sent = NoneSent
    /\ rendered = NoneSent
    /\ last = NoOp
    /\ Connected

\* core.main.send_output(text, target, suffix)
ApiSend ==
    /\ pc = "api"
    /\ Ops < MaxOps
    /\ \E text \in SendTexts, target \in Targets, suffix \in Suffixes :
          LET r == send_output(text, target, suffix, output_stdout,
                               output_stderr, sys_stdout, sys_stderr,
                               console_stdout, console_stderr)
          IN  /\ output_stdout' = r[1]
              /\ output_stderr' = r[2]
              /\ sys_stdout' = r[3]
              /\ sys_stderr' = r[4]
              /\ sent' = Sent(target, text, suffix)
              /\ last' = SendOp(text, target, suffix, r[1], r[2])
    /\ sends' = sends + 1
    /\ UNCHANGED <<registry, pc, task, dep, args, switches, files,
                   exit_status, calls, rendered>>

\* core.main.render_output(filename, target)
ApiRender ==
    /\ pc = "api"
    /\ Ops < MaxOps
    /\ \E filename \in Filenames, target \in Targets :
          LET r == render_output(filename, target, output_stdout,
                                 output_stderr, sys_stdout, sys_stderr, files)
          IN  /\ output_stdout' = r[2]
              /\ output_stderr' = r[3]
              /\ last' = RenderOp(r[1], target, filename)
              /\ \E opened \in OpenOutcomes(filename) :
                    IF opened
                    THEN /\ sys_stdout' = r[4]
                         /\ sys_stderr' = r[5]
                         /\ files' = r[6]
                         /\ rendered' = Rendered(target, r[1])
                         /\ UNCHANGED <<pc, exit_status>>
                    ELSE /\ pc' = "raised"
                         /\ exit_status' = "OSError"
                         /\ UNCHANGED <<streams, rendered>>
    /\ UNCHANGED <<registry, task, dep, args, switches, calls, sends, sent>>

\* core.main.console_stdout = ... or core.main.console_stderr = ...
ApiSetConsole ==
    /\ pc = "api"
    /\ \E target \in Targets :
          /\ console_stdout' = IF target = "stdout" THEN ~console_stdout
                               ELSE console_stdout
          /\ console_stderr' = IF target = "stderr" THEN ~console_stderr
                               ELSE console_stderr
    /\ UNCHANGED <<registry, pc, task, dep, args, buffers, streams,
                   exit_status, calls, history>>

NextOutput ==
    \/ ApiSend
    \/ ApiRender
    \/ ApiSetConsole

SpecOutput == InitOutput /\ [][NextOutput]_vars

\* ------------------------------------------------------------ init_plugins
\* Names a caller can request.
RequestNames ==
    {"flush", "uniprot", "pathways", "difference", "crossref", "taxonomy",
     "doesnotexist"}

InitResolve ==
    /\ plugin_modules \in Registries
    /\ plugins \in SUBSET RequestNames
    /\ todo = plugins
    /\ init_queue = {}
    /\ init_history = {}
    /\ result = "none"
    /\ pc = "scan"
    /\ pipeline = << >>
    /\ task = 1
    /\ dep = 1
    /\ args = Unbound
    /\ output_stdout = << >>
    /\ output_stderr = << >>
    /\ console_stdout = FALSE
    /\ console_stderr = TRUE
    /\ sys_stdout = << >>
    /\ sys_stderr = << >>
    /\ files = << >>
    /\ exit_status = "running"
    /\ calls = << >>
    /\ sends = 0
    /\ sent = NoneSent
    /\ rendered = NoneSent
    /\ last = NoOp
    /\ Connected

Range(f) == {f[k] : k \in DOMAIN f}

\* Mutant: the dependencies are not queued.
QueuePluginNoDeps(queue, name, def) == queue \cup {name}

\* init_queue.update(dependencies); init_queue.add(plugin)
QueuePlugin(queue, name, def) == queue \cup Range(def.dependencies) \cup {name}

unchangedProgram ==
    UNCHANGED <<plugin_modules, pipeline, plugins, task, dep, args, buffers,
                switches, streams, exit_status, history, discovery,
                filestore, datastore, locals>>

\* One iteration of "for plugin in plugins". A name that is neither external
\* nor internal reaches plugins.modules_disabled, where plugins is the
\* argument: an AttributeError.
ScanPlugin ==
    /\ pc = "scan"
    /\ \E plugin \in todo :
          /\ todo' = todo \ {plugin}
          /\ IF plugin \notin DOMAIN plugin_modules /\ plugin \notin internal_plugins
             THEN /\ pc' = "returned"
                  /\ result' = "AttributeError"
                  /\ init_queue' = init_queue
             ELSE /\ pc' = pc
                  /\ result' = result
                  /\ init_queue' =
                        IF plugin \in DOMAIN plugin_modules
                        THEN QueuePlugin(init_queue, plugin, plugin_modules[plugin])
                        ELSE init_queue
    /\ UNCHANGED <<init_history, calls>>
    /\ unchangedProgram

\* The first loop is exhausted; "for plugin in init_queue" starts.
StartInit ==
    /\ pc = "scan"
    /\ todo = {}
    /\ pc' = "init"
    /\ todo' = init_queue
    /\ UNCHANGED <<init_queue, init_history, result, calls>>
    /\ unchangedProgram

\* Whether the second loop calls callback_init for a plugin.
NeedsInit(def, name, done) == def.callback_init /\ name \notin done

\* One iteration of "for plugin in init_queue".
InitQueued ==
    /\ pc = "init"
    /\ \E plugin \in todo :
          /\ todo' = todo \ {plugin}
          /\ IF plugin \notin DOMAIN plugin_modules
             THEN /\ pc' = "returned"
                  /\ result' = "KeyError"
                  /\ UNCHANGED <<init_history, calls>>
             ELSE /\ pc' = pc
                  /\ result' = result
                  /\ IF NeedsInit(plugin_modules[plugin], plugin, init_history)
                     THEN /\ calls' = Append(calls, Call(0, plugin, "init", EmptyStr))
                          /\ init_history' = init_history \cup {plugin}
                     ELSE UNCHANGED <<init_history, calls>>
    /\ UNCHANGED init_queue
    /\ unchangedProgram

\* return True
ReturnTrue ==
    /\ pc = "init"
    /\ todo = {}
    /\ pc' = "returned"
    /\ result' = "True"
    /\ UNCHANGED <<todo, init_queue, init_history, calls>>
    /\ unchangedProgram

NextResolve ==
    \/ ScanPlugin
    \/ StartInit
    \/ InitQueued
    \/ ReturnTrue

SpecResolve == InitResolve /\ [][NextResolve]_vars

\* ---------------------------------------------------------- connect_plugins
\* Modules of the plugins package, in the order pkgutil.iter_modules yields
\* them (sorted by name).
PackageModules == <<"crossref", "pathways", "taxonomy", "uniprot">>

\* "plugin_connect" in dir(module_handle): taxonomy.py only defines the old
\* entry point pluginConnect.
HasPluginConnect(name) == name \in DOMAIN ConnectedModules

\* What a module does when it is imported and when its plugin_connect runs.
ModuleOutcomes(name) ==
    IF HasPluginConnect(name)
    THEN {"ok", "import_raises", "connect_raises"}
    ELSE {"ok", "import_raises"}

\* PluginDef.__init__(module): no dependency and no callback yet.
NewPluginDef == PluginDef(<< >>, FALSE, FALSE, FALSE)

\* "Error loading \"{0}.py\", skipping...".format(module)
ErrorLoadingText(module) ==
    <<"Error loading ", QUOTE, module, ".py", QUOTE, ", skipping...">>

InitConnect ==
    /\ debug \in BOOLEAN
    /\ modules \in
          {[k \in DOMAIN PackageModules |->
               [name |-> PackageModules[k], outcome |-> o[k]]] :
             o \in {f \in [DOMAIN PackageModules ->
                             {"ok", "import_raises", "connect_raises"}] :
                      \A k \in DOMAIN PackageModules :
                         f[k] \in ModuleOutcomes(PackageModules[k])}}
    /\ internals = {}
    /\ temp_path = FALSE
    /\ plugin_modules = << >>
    /\ pipeline = << >>
    /\ pc = "connect"
    /\ task = 1
    /\ dep = 1
    /\ args = Unbound
    /\ output_stdout = << >>
    /\ output_stderr = << >>
    /\ console_stdout = FALSE
    /\ console_stderr = TRUE
    /\ sys_stdout = << >>
    /\ sys_stderr = << >>
    /\ files = << >>
    /\ exit_status = "running"
    /\ plugins = {}
    /\ todo = {}
    /\ init_queue = {}
    /\ init_history = {}
    /\ result = "none"
    /\ calls = << >>
    /\ sends = 0
    /\ sent = NoneSent
    /\ rendered = NoneSent
    /\ last = NoOp
    /\ file_entries = << >>
    /\ file_objects = << >>
    /\ handles = << >>
    /\ disk = << >>
    /\ flast = NoCall
    /\ data_entries = << >>
    /\ instances = << >>
    /\ db = << >>
    /\ dlast = NoCall
    /\ Idle

\* What connect_plugins never assigns.
unchangedByConnect ==
    UNCHANGED <<pipeline, args, output_stdout, sys_stdout, files, switches,
                plugins, todo, init_queue, init_history, result, rendered,
                debug, modules, file_entries, file_objects, handles, disk,
                flast, datastore, locals>>

\* FileStore.init(...) and the two internal plugins.
ConnectInit ==
    /\ pc = "connect"
    /\ temp_path' = TRUE
    /\ internals' = {"flush", "write"}
    /\ pc' = "import"
    /\ UNCHANGED <<plugin_modules, task, dep, output_stderr, sys_stderr,
                   exit_status, calls, sends, sent, last>>
    /\ unchangedByConnect

\* The names plugin_modules holds after the first loop, in insertion order.
RegisteredModules ==
    SelectSeq(modules,
              LAMBDA m : m.outcome # "import_raises" /\ HasPluginConnect(m.name))

\* send_output("Error loading ...", "stderr"), and the loop goes on.
SkipModule(module) ==
    LET r == send_output(ErrorLoadingText(module), "stderr", <<NL>>,
                         output_stdout, output_stderr, sys_stdout,
                         sys_stderr, console_stdout, console_stderr)
    IN  /\ output_stderr' = r[2]
        /\ sys_stderr' = r[4]
        /\ sends' = sends + 1
        /\ sent' = Sent("stderr", ErrorLoadingText(module), <<NL>>)
        /\ last' = SendOp(ErrorLoadingText(module), "stderr", <<NL>>,
                          r[1], r[2])
        /\ task' = task + 1
        /\ UNCHANGED <<pc, exit_status>>

\* except Exception: raise when debug, else send_output(..., "stderr").
ImportFailed(module, dbg) ==
    IF dbg
    THEN /\ pc' = "raised"
         /\ exit_status' = "Exception"
         /\ UNCHANGED <<task, output_stderr, sys_stderr, sends, sent, last>>
    ELSE SkipModule(module)

\* One iteration of "for importer, module, package in iter_modules(...)".
ImportModule ==
    /\ pc = "import"
    /\ task <= Len(modules)
    /\ LET m == modules[task]
       IN  IF m.outcome = "import_raises"
           THEN /\ ImportFailed(m.name, debug)
                /\ UNCHANGED plugin_modules
           ELSE /\ plugin_modules' =
                      IF HasPluginConnect(m.name)
                      THEN plugin_modules @@ (m.name :> NewPluginDef)
                      ELSE plugin_modules
                /\ task' = task + 1
                /\ UNCHANGED <<pc, exit_status, output_stderr, sys_stderr,
                               sends, sent, last>>
    /\ UNCHANGED <<dep, calls, internals, temp_path>>
    /\ unchangedByConnect

\* One iteration of "for plugin in plugin_modules": plugin_connect fills the
\* definition. Nothing catches what plugin_connect raises.
ConnectPlugin ==
    /\ pc = "import"
    /\ task > Len(modules)
    /\ dep <= Len(RegisteredModules)
    /\ LET m == RegisteredModules[dep]
       IN  /\ calls' = Append(calls, Call(dep, m.name, "connect", EmptyStr))
           /\ IF m.outcome = "connect_raises"
              THEN /\ pc' = "raised"
                   /\ exit_status' = "Exception"
                   /\ UNCHANGED <<plugin_modules, dep>>
              ELSE /\ plugin_modules' =
                         [plugin_modules EXCEPT ![m.name] = ConnectedModules[m.name]]
                   /\ dep' = dep + 1
                   /\ UNCHANGED <<pc, exit_status>>
    /\ UNCHANGED <<task, internals, temp_path, output_stderr, sys_stderr,
                   sends, sent, last>>
    /\ unchangedByConnect

\* connect_plugins returns.
ConnectReturn ==
    /\ pc = "import"
    /\ task > Len(modules)
    /\ dep > Len(RegisteredModules)
    /\ pc' = "connected"
    /\ UNCHANGED <<plugin_modules, task, dep, internals, temp_path,
                   output_stderr, sys_stderr, exit_status, calls, sends,
                   sent, last>>
    /\ unchangedByConnect

NextConnect ==
    \/ ConnectInit
    \/ ImportModule
    \/ ConnectPlugin
    \/ ConnectReturn

SpecConnect == InitConnect /\ [][NextConnect]_vars

\* ---------------------------------------------------------------- FileStore
\* Calls made on the FileStore before the process tears it down.
MaxFileOps == 4

None == "None"

\* FTYPE_TEMP, FTYPE_CACHE, FTYPE_OUTPUT, FTYPE_USER = range(4)
FTYPE_TEMP == 0
FTYPE_CACHE == 1
FTYPE_OUTPUT == 2
FTYPE_USER == 3

\* FOPT_NORMAL, FOPT_GZIP, FOPT_GZIP_DECOMPRESS, FOPT_TAR = range(4)
FOPT_NORMAL == 0
FOPT_GZIP == 1
FOPT_GZIP_DECOMPRESS == 2
FOPT_TAR == 3

\* FileStore._temp_path, _cache_path and _output_path as FileStore.init sets
\* them, each with its trailing separator. A path is a sequence of
\* characters after the directory, so that path[:-3] is computed.
TempDir == <<"/tmp/pp-x/">>
CacheDir == <<"~/.paladin-plugins/">>
OutputDir == <<"./">>

DbName == <<"c", ".", "d", "b">>
GzName == <<"i", "d", ".", "d", "a", "t", ".", "g", "z">>
Url == "ftp://host/id.dat.gz"

\* The resources plugin code registers: FileStore(group, fid, name, url,
\* ftype, options). The first two are those of crossref_init; the last two
\* carry the option FOPT_GZIP_DECOMPRESS, with and without a URL.
Declarations ==
    {[group |-> "crossref-db", fid |-> "crossref-db", name |-> DbName,
      url |-> None, ftype |-> FTYPE_CACHE, options |-> FOPT_NORMAL],
     [group |-> "crossref-uniprot", fid |-> "crossref-uniprot",
      name |-> GzName, url |-> Url, ftype |-> FTYPE_TEMP,
      options |-> FOPT_GZIP],
     [group |-> "ref", fid |-> "remote", name |-> GzName, url |-> Url,
      ftype |-> FTYPE_CACHE, options |-> FOPT_GZIP_DECOMPRESS],
     [group |-> "ref", fid |-> "user", name |-> GzName, url |-> None,
      ftype |-> FTYPE_USER, options |-> FOPT_GZIP_DECOMPRESS]}

\* mode of get_handle(mode=None)
Modes == {None, "r", "w"}

\* File contents: whether the bytes are gzip data, and what they hold.
File(gz, data) == [gz |-> gz, data |-> data]
Remote == File(TRUE, "remote")
UserFile == File(TRUE, "user")

\* FileStore.set_path(name, ftype)
set_path(name, ftype) ==
    CASE ftype = FTYPE_TEMP -> TempDir \o name
      [] ftype = FTYPE_CACHE -> CacheDir \o name
      [] ftype = FTYPE_OUTPUT -> OutputDir \o name
      [] ftype = FTYPE_USER -> name

\* path[:-3]
StripSuffix(path) ==
    IF Len(path) <= 3 THEN << >> ELSE SubSeq(path, 1, Len(path) - 3)

\* FileStore.get_path(self)
get_path(entry, d) ==
    IF entry.options # FOPT_GZIP_DECOMPRESS
    THEN entry.path
    ELSE IF StripSuffix(entry.path) \in DOMAIN d
         THEN StripSuffix(entry.path)
         ELSE entry.path

\* os.remove(path)
Remove(d, path) == [p \in DOMAIN d \ {path} |-> d[p]]

\* open(path, "w") or urlretrieve(url, path): the file is replaced.
Store(d, path, file) == (path :> file) @@ d

\* FileStore.prepare(self): the entry, the file system and the exception
\* raised, if any. "gunzip" tells whether gzip.open(self.path, "rb") ran.
PrepareResult(entry, d, raised, gunzip) ==
    [entry |-> entry, disk |-> d, result |-> raised, gunzip |-> gunzip]

prepare(entry, d) ==
    LET d1 == IF entry.url # None THEN Store(d, entry.path, Remote) ELSE d
        out == StripSuffix(entry.path)
    IN  CASE entry.options = FOPT_GZIP_DECOMPRESS ->
               IF entry.path \notin DOMAIN d1 \/ out = << >>
               THEN PrepareResult(entry, d1, "FileNotFoundError", TRUE)
               ELSE IF ~d1[entry.path].gz
                    THEN PrepareResult(entry, Store(d1, out, File(FALSE, "")),
                                       "BadGzipFile", TRUE)
                    ELSE PrepareResult(
                            [entry EXCEPT !.path = out],
                            Remove(Store(d1, out, File(FALSE, d1[entry.path].data)),
                                   entry.path),
                            "ok", TRUE)
          [] entry.options = FOPT_TAR ->
               PrepareResult(entry, d1, "ValueError", FALSE)
          [] OTHER -> PrepareResult(entry, d1, "ok", FALSE)

\* handle.close(), h = 0 standing for None
Close(hs, h) == IF h = 0 THEN hs ELSE [hs EXCEPT ![h].open = FALSE]

\* A file object returned by open or gzip.open through entry number id.
Handle(id, path, mode) ==
    [owner |-> id, path |-> path, mode |-> mode, open |-> TRUE]

GetHandleResult(entry, hs, d, raised, returned) ==
    [entry |-> entry, handles |-> hs, disk |-> d, result |-> raised,
     returned |-> returned]

\* get_handle that opens without closing the handle it replaces.
get_handle_leak(entry, id, mode, hs, d) ==
    IF mode = None
    THEN GetHandleResult(entry, hs, d, "ok", entry.handle)
    ELSE LET path == get_path(entry, d)
         IN  IF mode = "r" /\ path \notin DOMAIN d
             THEN GetHandleResult(entry, hs, d, "FileNotFoundError", 0)
             ELSE GetHandleResult(
                     [entry EXCEPT !.handle = Len(hs) + 1],
                     Append(hs, Handle(id, path, mode)),
                     IF mode = "w"
                     THEN Store(d, path, File(entry.options = FOPT_GZIP, ""))
                     ELSE d,
                     "ok", Len(hs) + 1)

\* FileStore.get_handle(self, mode=None)
get_handle(entry, id, mode, hs, d) ==
    IF mode = None
    THEN GetHandleResult(entry, hs, d, "ok", entry.handle)
    ELSE LET hs1 == Close(hs, entry.handle)
             path == get_path(entry, d)
         IN  IF mode = "r" /\ path \notin DOMAIN d
             THEN GetHandleResult(entry, hs1, d, "FileNotFoundError", 0)
             ELSE GetHandleResult(
                     [entry EXCEPT !.handle = Len(hs1) + 1],
                     Append(hs1, Handle(id, path, mode)),
                     IF mode = "w"
                     THEN Store(d, path, File(entry.options = FOPT_GZIP, ""))
                     ELSE d,
                     "ok", Len(hs1) + 1)

\* FileStore.__init__(self, group, fid, name, url, ftype, options); decl
\* keeps the arguments of the constructor.
NewFileStore(decl) ==
    [fid |-> decl.fid, url |-> decl.url, ftype |-> decl.ftype,
     options |-> decl.options, handle |-> 0,
     path |-> set_path(decl.name, decl.ftype), decl |-> decl]

\* The orchestrator's variables other than pc and exit_status, and the
\* plugins' locals.
orchestrator == <<plugin_modules, pipeline, task, dep, args, buffers,
                  switches, streams, plugins, todo, init_queue,
                  init_history, result, calls, history, locals>>

\* The process after connect_plugins, with the compressed file a user
\* supplies in the working directory.
InitFile ==
    /\ pc = "files"
    /\ plugin_modules = ConnectedModules
    /\ pipeline = << >>
    /\ task = 1
    /\ dep = 1
    /\ args = Unbound
    /\ output_stdout = << >>
    /\ output_stderr = << >>
    /\ console_stdout = FALSE
    /\ console_stderr = TRUE
    /\ sys_stdout = << >>
    /\ sys_stderr = << >>
    /\ files = << >>
    /\ exit_status = "running"
    /\ plugins = {}
    /\ todo = {}
    /\ init_queue = {}
    /\ init_history = {}
    /\ result = "none"
    /\ calls = << >>
    /\ sends = 0
    /\ sent = NoneSent
    /\ rendered = NoneSent
    /\ last = NoOp
    /\ debug = FALSE
    /\ modules = << >>
    /\ internals = internal_plugins
    /\ temp_path = TRUE
    /\ file_entries = << >>
    /\ file_objects = << >>
    /\ handles = << >>
    /\ disk = (GzName :> UserFile)
    /\ flast = NoCall
    /\ data_entries = << >>
    /\ instances = << >>
    /\ db = << >>
    /\ dlast = NoCall
    /\ Idle

\* A call that raises leaves exec_pipeline for the finally block of the
\* main script.
Returns(raised) ==
    IF raised = "ok"
    THEN UNCHANGED <<pc, exit_status>>
    ELSE pc' = "finally" /\ exit_status' = raised

\* FileStore(group, fid, name, url, ftype, options)
Register ==
    /\ pc = "files"
    /\ flast.n < MaxFileOps
    /\ \E decl \in Declarations :
          LET id == Len(file_objects) + 1
          IN  /\ file_objects' = Append(file_objects, NewFileStore(decl))
              /\ file_entries' =
                    (<<decl.group, decl.fid>> :> id) @@ file_entries
              /\ flast' = [op |-> "register", n |-> flast.n + 1, id |-> id,
                           result |-> "ok"]
    /\ UNCHANGED <<pc, exit_status, temp_path, handles, disk>>
    /\ UNCHANGED <<orchestrator, discovery, datastore>>

\* FileStore.get_entry(fid, group).prepare()
Prepare ==
    /\ pc = "files"
    /\ flast.n < MaxFileOps
    /\ \E key \in DOMAIN file_entries :
          LET id == file_entries[key]
              r == prepare(file_objects[id], disk)
          IN  /\ file_objects' = [file_objects EXCEPT ![id] = r.entry]
              /\ disk' = r.disk
              /\ flast' = [op |-> "prepare", n |-> flast.n + 1, id |-> id,
                           result |-> r.result, gunzip |-> r.gunzip]
              /\ Returns(r.result)
    /\ UNCHANGED <<temp_path, file_entries, handles>>
    /\ UNCHANGED <<orchestrator, discovery, datastore>>

\* FileStore.get_entry(fid, group).get_handle(mode)
GetHandle ==
    /\ pc = "files"
    /\ flast.n < MaxFileOps
    /\ \E key \in DOMAIN file_entries, mode \in Modes :
          LET id == file_entries[key]
              r == get_handle(file_objects[id], id, mode, handles, disk)
          IN  /\ file_objects' = [file_objects EXCEPT ![id] = r.entry]
              /\ handles' = r.handles
              /\ disk' = r.disk
              /\ flast' = [op |-> "get_handle", n |-> flast.n + 1, id |-> id,
                           result |-> r.result, mode |-> mode,
                           returned |-> r.returned]
              /\ Returns(r.result)
    /\ UNCHANGED <<temp_path, file_entries>>
    /\ UNCHANGED <<orchestrator, discovery, datastore>>

\* destroy that leaves the handles alone.
CloseAllSkipped(entries, objects, hs) == hs

\* FileStore.destroy(), first loop: entry.handle.close() for every entry of
\* every group.
CloseAll(entries, objects, hs) ==
    [h \in DOMAIN hs |->
        IF \E key \in DOMAIN entries : objects[entries[key]].handle = h
        THEN [hs[h] EXCEPT !.open = FALSE]
        ELSE hs[h]]

\* shutil.rmtree(FileStore._temp_path)
Rmtree(d) == [p \in {q \in DOMAIN d : Head(q) # Head(TempDir)} |-> d[p]]

\* The main script reaches its finally block, by the end of the pipeline or
\* by an exception: FileStore.destroy() closes the handles,
DestroyClose ==
    /\ pc \in {"files", "finally"}
    /\ handles' = CloseAll(file_entries, file_objects, handles)
    /\ pc' = "rmtree"
    /\ UNCHANGED <<exit_status, temp_path, file_entries, file_objects, disk,
                   flast>>
    /\ UNCHANGED <<orchestrator, discovery, datastore>>

\* and then deletes the temporary directory.
DestroyRmtree ==
    /\ pc = "rmtree"
    /\ temp_path' = FALSE
    /\ disk' = Rmtree(disk)
    /\ pc' = "destroyed"
    /\ UNCHANGED <<exit_status, file_entries, file_objects, handles, flast>>
    /\ UNCHANGED <<orchestrator, discovery, datastore>>

\* FileStore.expired(self): os.path.getmtime raises for a missing file;
\* for an existing one the comparison reads FileStore.EXPIRE_AGE, an
\* attribute the class does not have (init sets _expire_age), which raises
\* AttributeError whatever the age is.
expired(entry, d) ==
    IF get_path(entry, d) \notin DOMAIN d
    THEN "FileNotFoundError"
    ELSE "AttributeError"

\* FileStore.get_entry(fid, group).expired()
Expired ==
    /\ pc = "files"
    /\ flast.n < MaxFileOps
    /\ \E key \in DOMAIN file_entries :
          LET id == file_entries[key]
              r == expired(file_objects[id], disk)
          IN  /\ flast' = [op |-> "expired", n |-> flast.n + 1, id |-> id,
                           result |-> r, gunzip |-> FALSE]
              /\ Returns(r)
    /\ UNCHANGED <<temp_path, file_entries, file_objects, handles, disk>>
    /\ UNCHANGED <<orchestrator, discovery, datastore>>

NextFile ==
    \/ Register
    \/ Prepare
    \/ GetHandle
    \/ Expired
    \/ DestroyClose
    \/ DestroyRmtree

SpecFile == InitFile /\ [][NextFile]_vars

\* ---------------------------------------------------------------- DataStore
\* Calls made on the DataStore.
MaxDataOps == 5

\* Store names and the database file of each, as crossref_init and
\* pathways_init give them.
StoreNames == {"crossref", "pathways"}
DataFile(name) == CacheDir \o <<name, ".db">>

\* Query names callers use and SQL texts they register: the lookup of
\* pathways_init, and a text that writes.
QueryNames == {"enzyme-lookup", "undefined"}
SelectSql == "SELECT pathway FROM enzyme WHERE ec = ?"
DeleteSql == "DELETE FROM enzyme WHERE ec = ?"
SqlTexts == {SelectSql, DeleteSql}
Parameters == {<<"1.1.1.1">>}

\* Python's None where a cursor may stand instead.
NoneObject == [none |-> TRUE]

\* One executed statement: the SQL text and its parameters.
Statement(sql, parameters) == [sql |-> sql, parameters |-> parameters]
IsWrite(stmt) == stmt.sql # SelectSql

\* What a DataStore method does to the objects and the databases, the
\* exception it raises if any, and what it returns.
DataResult(insts, d, raised, returned) ==
    [instances |-> insts, db |-> d, result |-> raised, returned |-> returned]

\* sqlite: another connection to the same file holds uncommitted writes.
Locked(insts, i) ==
    \E j \in DOMAIN insts :
       /\ j # i
       /\ insts[j].filename = insts[i].filename
       /\ insts[j].open
       /\ insts[j].pending # << >>

\* cursor.execute(statement) on a connection with isolation_level None: a
\* write inside BEGIN ... END stays pending, any other write is committed
\* at once.
Execute(insts, d, i, stmt) ==
    IF ~IsWrite(stmt)
    THEN DataResult(insts, d, "ok", NoneObject)
    ELSE IF Locked(insts, i)
         THEN DataResult(insts, d, "OperationalError", NoneObject)
         ELSE IF insts[i].txn
              THEN DataResult([insts EXCEPT ![i].pending = Append(@, stmt)],
                              d, "ok", NoneObject)
              ELSE DataResult(insts,
                              [d EXCEPT ![insts[i].filename] = Append(@, stmt)],
                              "ok", NoneObject)

\* self.connection.commit(): ends the open transaction, if there is one.
Commit(insts, d, i) ==
    IF insts[i].txn
    THEN DataResult([insts EXCEPT ![i].pending = << >>, ![i].txn = FALSE],
                    [d EXCEPT ![insts[i].filename] = @ \o insts[i].pending],
                    "ok", NoneObject)
    ELSE DataResult(insts, d, "ok", NoneObject)

\* cursor.execute(...) followed by "if not self.transaction: commit()".
ExecuteAndCommit(insts, d, i, stmt) ==
    LET e == Execute(insts, d, i, stmt)
    IN  IF e.result = "ok" /\ ~insts[i].transaction
        THEN Commit(e.instances, e.db, i)
        ELSE e

\* DataStore.create_table(self, name, columns)
create_table(insts, d, i, name) ==
    ExecuteAndCommit(insts, d, i,
                     Statement("CREATE TABLE IF NOT EXISTS", <<name>>))

\* DataStore.insert_rows(self, name, data)
insert_rows(insts, d, i, name, data) ==
    ExecuteAndCommit(insts, d, i,
                     Statement("INSERT OR IGNORE INTO", <<name>> \o data))

\* DataStore.delete_rows(self, name, query=None)
delete_rows(insts, d, i, name) ==
    ExecuteAndCommit(insts, d, i, Statement("DELETE FROM", <<name>>))

\* exec_query that runs the registered text without the parameters.
exec_query_noparams(insts, d, i, name, parameters) ==
    IF name \notin DOMAIN insts[i].queries
    THEN DataResult(insts, d, "ok", NoneObject)
    ELSE LET stmt == Statement(insts[i].queries[name], << >>)
             e == ExecuteAndCommit(insts, d, i, stmt)
         IN  IF e.result = "ok"
             THEN DataResult(e.instances, e.db, "ok", stmt)
             ELSE e

\* DataStore.exec_query(self, name, parameters): returns None for a name
\* that is not in self.queries, else the cursor of the executed statement.
exec_query(insts, d, i, name, parameters) ==
    IF name \notin DOMAIN insts[i].queries
    THEN DataResult(insts, d, "ok", NoneObject)
    ELSE LET stmt == Statement(insts[i].queries[name], parameters)
             e == ExecuteAndCommit(insts, d, i, stmt)
         IN  IF e.result = "ok"
             THEN DataResult(e.instances, e.db, "ok", stmt)
             ELSE e

\* .fetchone() as the callers apply it to what exec_query returned.
Fetchone(returned) == IF returned = NoneObject THEN "AttributeError" ELSE "ok"

\* DataStore.process_trans(self)
process_trans(insts, d, i) ==
    IF ~insts[i].transaction
    THEN IF insts[i].txn
         THEN DataResult(insts, d, "OperationalError", NoneObject)
         ELSE DataResult([insts EXCEPT ![i].txn = TRUE,
                                       ![i].transaction = TRUE],
                         d, "ok", NoneObject)
    ELSE IF ~insts[i].txn
         THEN DataResult(insts, d, "OperationalError", NoneObject)
         ELSE LET c == Commit(insts, d, i)
              IN  DataResult([c.instances EXCEPT ![i].transaction = FALSE],
                             c.db, "ok", NoneObject)

\* DataStore.update_age(self, name)
update_age(insts, d, i, name, now) ==
    LET e1 == Execute(insts, d, i,
                      Statement("INSERT OR IGNORE INTO age", <<name, 0>>))
        e2 == Execute(e1.instances, e1.db, i,
                      Statement("UPDATE age SET modified", <<name, now>>))
    IN  IF e1.result # "ok"
        THEN e1
        ELSE IF e2.result # "ok"
             THEN e2
             ELSE Commit(e2.instances, e2.db, i)

\* DataStore.__init__(self, name, filename); name and toggles (the number
\* of process_trans calls) are kept for the record.
NewDataStore(name, filename) ==
    [name |-> name, filename |-> filename, queries |-> << >>,
     transaction |-> FALSE, open |-> TRUE, txn |-> FALSE,
     pending |-> << >>, toggles |-> 0]

\* DataStore.destroy(): "for entry in DataStore._entries" iterates the
\* names, and a str has no close().
destroy(entries, insts) ==
    IF DOMAIN entries = {}
    THEN DataResult(insts, << >>, "ok", NoneObject)
    ELSE DataResult(insts, << >>, "AttributeError", NoneObject)

\* DataStore.get_entry(name): the object registered under the name, 0
\* standing for None.
get_entry(entries, name) == IF name \in DOMAIN entries THEN entries[name] ELSE 0

\* The process after connect_plugins, before any plugin opened a store.
InitData ==
    /\ pc = "data"
    /\ plugin_modules = ConnectedModules
    /\ pipeline = << >>
    /\ task = 1
    /\ dep = 1
    /\ args = Unbound
    /\ output_stdout = << >>
    /\ output_stderr = << >>
    /\ console_stdout = FALSE
    /\ console_stderr = TRUE
    /\ sys_stdout = << >>
    /\ sys_stderr = << >>
    /\ files = << >>
    /\ exit_status = "running"
    /\ plugins = {}
    /\ todo = {}
    /\ init_queue = {}
    /\ init_history = {}
    /\ result = "none"
    /\ calls = << >>
    /\ sends = 0
    /\ sent = NoneSent
    /\ rendered = NoneSent
    /\ last = NoOp
    /\ Connected

\* The call op on object number i had the effects r; "consumed" is what the
\* caller's use of the returned value raised.
DataCall(op, i, r, name, parameters, consumed) ==
    /\ instances' = r.instances
    /\ db' = r.db
    /\ dlast' = [op |-> op, n |-> dlast.n + 1, id |-> i, result |-> r.result,
                 returned |-> r.returned, name |-> name,
                 parameters |-> parameters, consumed |-> consumed]
    /\ Returns(IF r.result = "ok" THEN consumed ELSE r.result)
    /\ UNCHANGED data_entries
    /\ UNCHANGED <<orchestrator, discovery, filestore>>

CanCall == pc = "data" /\ dlast.n < MaxDataOps

\* DataStore(name, filename)
OpenStore ==
    /\ CanCall
    /\ \E name \in StoreNames :
          LET id == Len(instances) + 1
          IN  /\ instances' =
                    Append(instances, NewDataStore(name, DataFile(name)))
              /\ db' = IF DataFile(name) \in DOMAIN db
                       THEN db
                       ELSE (DataFile(name) :> << >>) @@ db
              /\ data_entries' = (name :> id) @@ data_entries
              /\ dlast' = [op |-> "open", n |-> dlast.n + 1, id |-> id,
                           result |-> "ok", returned |-> NoneObject, name |-> name,
                           parameters |-> << >>, consumed |-> "ok"]
    /\ UNCHANGED <<pc, exit_status>>
    /\ UNCHANGED <<orchestrator, discovery, filestore>>

\* DataStore.get_entry(store).define_query(name, query)
DefineQuery ==
    /\ CanCall
    /\ \E store \in DOMAIN data_entries, sql \in SqlTexts :
          LET i == get_entry(data_entries, store)
              name == "enzyme-lookup"
          IN  DataCall("define_query", i,
                       DataResult([instances EXCEPT ![i].queries =
                                      (name :> sql) @@ @],
                                  db, "ok", NoneObject),
                       name, << >>, "ok")

\* DataStore.get_entry(store).create_table("enzyme", columns)
CreateTable ==
    /\ CanCall
    /\ \E store \in DOMAIN data_entries :
          LET i == get_entry(data_entries, store)
          IN  DataCall("create_table", i,
                       create_table(instances, db, i, "enzyme"),
                       "enzyme", << >>, "ok")

\* DataStore.get_entry(store).insert_rows("enzyme", [row])
InsertRows ==
    /\ CanCall
    /\ \E store \in DOMAIN data_entries, row \in Parameters :
          LET i == get_entry(data_entries, store)
          IN  DataCall("insert_rows", i,
                       insert_rows(instances, db, i, "enzyme", row),
                       "enzyme", row, "ok")

\* DataStore.get_entry(store).delete_rows("enzyme")
DeleteRows ==
    /\ CanCall
    /\ \E store \in DOMAIN data_entries :
          LET i == get_entry(data_entries, store)
          IN  DataCall("delete_rows", i,
                       delete_rows(instances, db, i, "enzyme"),
                       "enzyme", << >>, "ok")

\* DataStore.get_entry(store).exec_query(name, parameters).fetchone(), as in
\* cache_enzyme.
ExecQuery ==
    /\ CanCall
    /\ \E store \in DOMAIN data_entries, name \in QueryNames,
          parameters \in Parameters :
          LET i == get_entry(data_entries, store)
              r == exec_query(instances, db, i, name, parameters)
          IN  DataCall("exec_query", i, r, name, parameters,
                       Fetchone(r.returned))

\* DataStore.get_entry(store).process_trans()
ProcessTrans ==
    /\ CanCall
    /\ \E store \in DOMAIN data_entries :
          LET i == get_entry(data_entries, store)
              r == process_trans(instances, db, i)
          IN  DataCall("process_trans", i,
                       [r EXCEPT !.instances[i].toggles = @ + 1],
                       "", << >>, "ok")

\* DataStore.get_entry(store).update_age("enzyme")
UpdateAge ==
    /\ CanCall
    /\ \E store \in DOMAIN data_entries :
          LET i == get_entry(data_entries, store)
          IN  DataCall("update_age", i,
                       update_age(instances, db, i, "enzyme", clock),
                       "enzyme", << >>, "ok")

\* DataStore.destroy()
DataDestroy ==
    /\ pc \in {"data", "finally"}
    /\ LET r == destroy(data_entries, instances)
       IN  /\ instances' = r.instances
           /\ exit_status' = IF r.result = "ok" THEN exit_status ELSE r.result
           /\ dlast' = [op |-> "destroy", n |-> dlast.n, id |-> 0,
                        result |-> r.result, returned |-> NoneObject, name |-> "",
                        parameters |-> << >>, consumed |-> "ok"]
    /\ pc' = "destroyed"
    /\ UNCHANGED <<data_entries, db>>
    /\ UNCHANGED <<orchestrator, discovery, filestore>>

NextData ==
    \/ OpenStore
    \/ DefineQuery
    \/ CreateTable
    \/ InsertRows
    \/ DeleteRows
    \/ ExecQuery
    \/ ProcessTrans
    \/ UpdateAge
    \/ DataDestroy

SpecData == InitData /\ [][NextData]_vars

\* ------------------------------------------------------- tables of a store
\* Calls made on the table, ticks of the clock, and thresholds asked for.
MaxRowOps == 3
MaxAgeOps == 3
MaxClock == 3
MaxDays == 1
\* Resolution of the clock: JulianDay differences are fractions of a day.
TicksPerDay == 2

\* Enzyme rows (ec, pathway) as cache_enzyme writes them, and the lists of
\* rows handed to insert_rows.
Keys == {"1.1.1.1", "2.7.1.1"}
Values == {"a", "b"}
RowSet == {<<k, v>> : k \in Keys, v \in Values}
Batches == {<<r>> : r \in RowSet} \cup {<<r, s>> : r \in RowSet, s \in RowSet}
AgeNames == {"enzyme", "uniprot"}
Days == 0 .. MaxDays

\* Whether the first column of the table is declared PRIMARY KEY: enzyme,
\* pathway and age are, uniprot is not.
PrimaryKey(name) == name # "uniprot"

RECURSIVE InsertOrReplace(_, _, _)
RECURSIVE InsertOrIgnore(_, _, _)
\* INSERT OR REPLACE: the row written last is kept.
InsertOrReplace(rows, data, keyed) ==
    IF data = << >>
    THEN rows
    ELSE LET row == Head(data)
         IN  InsertOrReplace(
                 Append(SelectSeq(rows, LAMBDA r : ~keyed \/ r[1] # row[1]),
                        row),
                 Tail(data), keyed)

\* executemany("INSERT OR IGNORE INTO ..."): row by row, a row whose primary
\* key the table already holds is skipped without an error.
InsertOrIgnore(rows, data, keyed) ==
    IF data = << >>
    THEN rows
    ELSE LET row == Head(data)
         IN  InsertOrIgnore(
                 IF keyed /\ \E k \in DOMAIN rows : rows[k][1] = row[1]
                 THEN rows
                 ELSE Append(rows, row),
                 Tail(data), keyed)

\* UPDATE age SET modified = CURRENT_TIMESTAMP WHERE name = ?
UpdateModified(rows, name, now) ==
    [k \in DOMAIN rows |->
        IF rows[k][1] = name THEN <<name, now>> ELSE rows[k]]

\* The rows of a table after the statements of a log, in rowid order.
RECURSIVE Table(_, _)
Table(log, name) ==
    IF log = << >>
    THEN << >>
    ELSE LET stmt == log[Len(log)]
             rows == Table(SubSeq(log, 1, Len(log) - 1), name)
         IN  IF stmt.sql = "INSERT OR IGNORE INTO"
                /\ stmt.parameters[1] = name
             THEN InsertOrIgnore(rows, Tail(stmt.parameters),
                                 PrimaryKey(name))
             ELSE IF stmt.sql = "DELETE FROM" /\ stmt.parameters[1] = name
             THEN << >>
             ELSE IF stmt.sql = DeleteSql /\ name = "enzyme"
             THEN SelectSeq(rows, LAMBDA r : r[1] # stmt.parameters[1])
             ELSE IF stmt.sql = "INSERT OR IGNORE INTO age" /\ name = "age"
             THEN InsertOrIgnore(rows, <<stmt.parameters>>, TRUE)
             ELSE IF stmt.sql = "UPDATE age SET modified" /\ name = "age"
             THEN UpdateModified(rows, stmt.parameters[1],
                                 stmt.parameters[2])
             ELSE rows

\* What a SELECT on connection i reads: the committed writes and the
\* connection's own pending ones.
Visible(insts, d, i) == d[insts[i].filename] \o insts[i].pending

\* get_expired that takes a row as old as the threshold for expired.
get_expired_inclusive(insts, d, i, name, days, now) ==
    LET rows == Table(Visible(insts, d, i), "age")
        found == SelectSeq(rows, LAMBDA r : r[1] = name)
    IN  DataResult(insts, d, "ok",
                   [value |-> (found = << >>
                               \/ now - found[1][2] >= days * TicksPerDay)])

\* DataStore.get_expired(self, name, days): "not result or result[0] > days"
\* with result[0] = JulianDay(CURRENT_TIMESTAMP) - JulianDay(modified).
get_expired(insts, d, i, name, days, now) ==
    LET rows == Table(Visible(insts, d, i), "age")
        found == SelectSeq(rows, LAMBDA r : r[1] = name)
    IN  DataResult(insts, d, "ok",
                   [value |-> (found = << >>
                               \/ now - found[1][2] > days * TicksPerDay)])

\* The process after pathways_init opened its store and created the enzyme
\* table.
InitTable ==
    /\ pc = "table"
    /\ plugin_modules = ConnectedModules
    /\ pipeline = << >>
    /\ task = 1
    /\ dep = 1
    /\ args = Unbound
    /\ output_stdout = << >>
    /\ output_stderr = << >>
    /\ console_stdout = FALSE
    /\ console_stderr = TRUE
    /\ sys_stdout = << >>
    /\ sys_stderr = << >>
    /\ files = << >>
    /\ exit_status = "running"
    /\ plugins = {}
    /\ todo = {}
    /\ init_queue = {}
    /\ init_history = {}
    /\ result = "none"
    /\ calls = << >>
    /\ sends = 0
    /\ sent = NoneSent
    /\ rendered = NoneSent
    /\ last = NoOp
    /\ debug = FALSE
    /\ modules = << >>
    /\ internals = internal_plugins
    /\ temp_path = TRUE
    /\ file_entries = << >>
    /\ file_objects = << >>
    /\ handles = << >>
    /\ disk = << >>
    /\ flast = NoCall
    /\ data_entries = ("pathways" :> 1)
    /\ LET r == create_table(
                    <<NewDataStore("pathways", DataFile("pathways"))>>,
                    (DataFile("pathways") :> << >>), 1, "enzyme")
       IN  instances = r.instances /\ db = r.db
    /\ dlast = NoCall
    /\ Idle

\* DataStore.get_entry("pathways").insert_rows("enzyme", data)
RowsInsert ==
    /\ pc = "table"
    /\ dlast.n < MaxRowOps
    /\ \E data \in Batches :
          DataCall("insert_rows", 1,
                   insert_rows(instances, db, 1, "enzyme", data),
                   "enzyme", data, "ok")

\* DataStore.get_entry("pathways").process_trans()
RowsTrans ==
    /\ pc = "table"
    /\ dlast.n < MaxRowOps
    /\ LET r == process_trans(instances, db, 1)
       IN  DataCall("process_trans", 1,
                    [r EXCEPT !.instances[1].toggles = @ + 1],
                    "", << >>, "ok")

NextRows ==
    \/ RowsInsert
    \/ RowsTrans

SpecRows == InitTable /\ [][NextRows]_vars

\* DataStore.get_entry("pathways").update_age(name)
AgeUpdate ==
    /\ pc = "table"
    /\ dlast.n < MaxAgeOps
    /\ \E name \in AgeNames :
          DataCall("update_age", 1,
                   update_age(instances, db, 1, name, clock),
                   name, << >>, "ok")

\* DataStore.get_entry("pathways").get_expired(name, days)
AgeExpired ==
    /\ pc = "table"
    /\ dlast.n < MaxAgeOps
    /\ \E name \in AgeNames, days \in Days :
          DataCall("get_expired", 1,
                   get_expired(instances, db, 1, name, days, clock),
                   name, <<days, clock>>, "ok")

\* DataStore.get_entry("pathways").process_trans()
AgeTrans ==
    /\ pc = "table"
    /\ dlast.n < MaxAgeOps
    /\ LET r == process_trans(instances, db, 1)
       IN  DataCall("process_trans", 1,
                    [r EXCEPT !.instances[1].toggles = @ + 1],
                    "", << >>, "ok")

\* Time passes between two calls.
AgeTick ==
    /\ pc = "table"
    /\ clock < MaxClock
    /\ clock' = clock + 1
    /\ UNCHANGED <<plugin_modules, pipeline, pc, task, dep, args, buffers,
                   switches, streams, exit_status, plugins, todo, init_queue,
                   init_history, result, calls, history, discovery,
                   filestore, datastore, lines_read, run, entries_len,
                   batch, max_retry, batch_idx, retry, attempts>>

NextAge ==
    \/ AgeUpdate
    \/ AgeExpired
    \/ AgeTrans
    \/ AgeTick

SpecAge == InitTable /\ [][NextAge]_vars

\* ------------------------------------------------------ populate_database
\* Process runs that use the same crossref database, one after the other.
MaxRuns == 3
\* get_expired("uniprot", 30)
RefreshDays == 30

CrossrefFile == DataFile("crossref")
UniprotPath == set_path(GzName, FTYPE_TEMP)

\* Lines of idmapping.dat as the download of one run holds them: two with
\* three tab-separated fields, and between them one with fewer or one with
\* more.
GoodLine(r, acc) == <<acc, "GeneID", r>>
ShortLine == <<"">>
LongLine(r) == <<"P3", "GeneID", r, "extra">>
Downloads(r) ==
    {<<GoodLine(r, "P1"), ShortLine, GoodLine(r, "P2")>>,
     <<GoodLine(r, "P1"), LongLine(r), GoodLine(r, "P2")>>}

\* The process after crossref_init opened its store, created the uniprot
\* table and entered populate_database.
InitRefresh ==
    /\ pc = "populate"
    /\ plugin_modules = ConnectedModules
    /\ pipeline = << >>
    /\ task = 1
    /\ dep = 1
    /\ args = Unbound
    /\ output_stdout = << >>
    /\ output_stderr = << >>
    /\ console_stdout = FALSE
    /\ console_stderr = TRUE
    /\ sys_stdout = << >>
    /\ sys_stderr = << >>
    /\ files = << >>
    /\ exit_status = "running"
    /\ plugins = {}
    /\ todo = {}
    /\ init_queue = {}
    /\ init_history = {}
    /\ result = "none"
    /\ calls = << >>
    /\ sends = 0
    /\ sent = NoneSent
    /\ rendered = NoneSent
    /\ last = NoOp
    /\ debug = FALSE
    /\ modules = << >>
    /\ internals = internal_plugins
    /\ temp_path = TRUE
    /\ file_entries = << >>
    /\ file_objects = << >>
    /\ handles = << >>
    /\ disk = << >>
    /\ flast = NoCall
    /\ data_entries = ("crossref" :> 1)
    /\ LET r == create_table(<<NewDataStore("crossref", CrossrefFile)>>,
                             (CrossrefFile :> << >>), 1, "uniprot")
       IN  instances = r.instances /\ db = r.db
    /\ dlast = NoCall
    /\ Idle

\* What the steps of populate_database leave alone besides the variables
\* each of them names.
unchangedByRefresh ==
    UNCHANGED <<plugin_modules, pipeline, task, dep, args, buffers, switches,
                sys_stdout, files, plugins, todo, init_queue, init_history,
                result, calls, history, discovery, temp_path, file_entries,
                file_objects, handles, flast, data_entries, entries_len,
                batch, max_retry, batch_idx, retry, attempts>>

\* A DataStore call of populate_database had the effects r: the function
\* goes on to the step "then", or the exception ends the process.
RefreshCall(op, r, then) ==
    /\ instances' = r.instances
    /\ db' = r.db
    /\ dlast' = [op |-> op, n |-> dlast.n + 1, id |-> 1, result |-> r.result,
                 returned |-> r.returned, name |-> "uniprot",
                 parameters |-> << >>, consumed |-> "ok"]
    /\ pc' = IF r.result = "ok" THEN then ELSE "exited"
    /\ exit_status' = IF r.result = "ok" THEN exit_status ELSE r.result

\* if not get_expired("uniprot", 30): return; send_output(...)
RefreshCheck ==
    /\ pc = "populate"
    /\ LET r == get_expired(instances, db, 1, "uniprot", RefreshDays, clock)
           s == send_output(<<"Populating UniProt database cross-references...">>,
                            "stderr", <<NL>>, output_stdout, output_stderr,
                            sys_stdout, sys_stderr, console_stdout,
                            console_stderr)
       IN  IF r.returned.value
           THEN RefreshCall("get_expired", r, "prepare") /\ sys_stderr' = s[4]
           ELSE RefreshCall("get_expired", r, "returned")
                /\ UNCHANGED sys_stderr
    /\ UNCHANGED <<disk, clock, lines_read, run>>
    /\ unchangedByRefresh

\* entry.prepare(): urlretrieve stores the download or raises; the three
\* drop_index calls that follow change no row.
RefreshPrepare ==
    /\ pc = "prepare"
    /\ \/ /\ \E content \in Downloads(run) :
                disk' = Store(disk, UniprotPath, File(TRUE, content))
          /\ pc' = "begin"
          /\ UNCHANGED exit_status
       \/ /\ pc' = "exited"
          /\ exit_status' = "URLError"
          /\ UNCHANGED disk
    /\ UNCHANGED <<instances, db, dlast, sys_stderr, clock, lines_read, run>>
    /\ unchangedByRefresh

\* populate_database without the first process_trans() call.
RefreshBeginSkipped ==
    /\ pc = "begin"
    /\ pc' = "delete"
    /\ UNCHANGED <<instances, db, dlast, exit_status>>
    /\ UNCHANGED <<disk, sys_stderr, clock, lines_read, run>>
    /\ unchangedByRefresh

\* DataStore.get_entry("crossref").process_trans()
RefreshBegin ==
    /\ pc = "begin"
    /\ RefreshCall("process_trans", process_trans(instances, db, 1), "delete")
    /\ UNCHANGED <<disk, sys_stderr, clock, lines_read, run>>
    /\ unchangedByRefresh

\* delete_rows("uniprot"), then entry.get_handle("rt") opens the download.
RefreshDelete ==
    /\ pc = "delete"
    /\ RefreshCall("delete_rows", delete_rows(instances, db, 1, "uniprot"),
                   "insert")
    /\ lines_read' = 0
    /\ UNCHANGED <<disk, sys_stderr, clock, run>>
    /\ unchangedByRefresh

\* One iteration of "for line in handle": a line of fewer than three
\* fields is skipped, any other is handed to insert_rows, which raises
\* when the fields outnumber the columns of the table.
RefreshInsert ==
    /\ pc = "insert"
    /\ lines_read < Len(disk[UniprotPath].data)
    /\ LET fields == disk[UniprotPath].data[lines_read + 1]
       IN  IF Len(fields) < 3
           THEN UNCHANGED <<instances, db, dlast, pc, exit_status>>
           ELSE IF Len(fields) > 3
           THEN RefreshCall("insert_rows",
                            DataResult(instances, db, "OperationalError",
                                       NoneObject),
                            "insert")
           ELSE RefreshCall("insert_rows",
                            insert_rows(instances, db, 1, "uniprot",
                                        <<fields>>),
                            "insert")
    /\ lines_read' = lines_read + 1
    /\ UNCHANGED <<disk, sys_stderr, clock, run>>
    /\ unchangedByRefresh

\* The handle is exhausted: process_trans() ends the transaction.
RefreshEnd ==
    /\ pc = "insert"
    /\ lines_read = Len(disk[UniprotPath].data)
    /\ RefreshCall("process_trans", process_trans(instances, db, 1), "age")
    /\ UNCHANGED <<disk, sys_stderr, clock, lines_read, run>>
    /\ unchangedByRefresh

\* The three create_index calls, which change no row, and
\* update_age("uniprot").
RefreshAge ==
    /\ pc = "age"
    /\ RefreshCall("update_age",
                   update_age(instances, db, 1, "uniprot", clock),
                   "returned")
    /\ UNCHANGED <<disk, sys_stderr, clock, lines_read, run>>
    /\ unchangedByRefresh

\* The process is interrupted inside populate_database.
RefreshInterrupt ==
    /\ pc \in {"prepare", "begin", "delete", "insert", "age"}
    /\ pc' = "exited"
    /\ exit_status' = "KeyboardInterrupt"
    /\ UNCHANGED <<instances, db, dlast, disk, sys_stderr, clock, lines_read,
                   run>>
    /\ unchangedByRefresh

\* The process has ended, which rolls back what its connection had not
\* committed and leaves its temporary directory behind or removed; the
\* program is started again, at once or after the table has aged, and
\* crossref_init leads to populate_database.
RefreshRerun ==
    /\ pc \in {"returned", "exited"}
    /\ run < MaxRuns
    /\ run' = run + 1
    /\ pc' = "populate"
    /\ exit_status' = "running"
    /\ \E later \in {0, RefreshDays * TicksPerDay + 1} : clock' = clock + later
    /\ LET r == create_table(<<NewDataStore("crossref", CrossrefFile)>>,
                             db, 1, "uniprot")
       IN  instances' = r.instances /\ db' = r.db
    /\ dlast' = NoCall
    /\ disk' = << >>
    /\ lines_read' = 0
    /\ sys_stderr' = << >>
    /\ unchangedByRefresh

NextRefresh ==
    \/ RefreshCheck
    \/ RefreshPrepare
    \/ RefreshBegin
    \/ RefreshDelete
    \/ RefreshInsert
    \/ RefreshEnd
    \/ RefreshAge
    \/ RefreshInterrupt
    \/ RefreshRerun

SpecRefresh == InitRefresh /\ [][NextRefresh]_vars

\* ------------------------------------------------------------ retrieve_data
\* Entries to fetch, and the -b and -r arguments of the uniprot plugin.
MaxEntries == 2
MaxBatch == 2
MaxRetry == 1

\* The process inside uniprot_main, at the call retrieve_data(entries,
\* columns, batch, max_retry).
InitRetrieve ==
    /\ pc = "batch"
    /\ plugin_modules = ConnectedModules
    /\ pipeline = << >>
    /\ task = 1
    /\ dep = 1
    /\ args = Unbound
    /\ output_stdout = << >>
    /\ output_stderr = << >>
    /\ console_stdout = FALSE
    /\ console_stderr = TRUE
    /\ sys_stdout = << >>
    /\ sys_stderr = << >>
    /\ files = << >>
    /\ exit_status = "running"
    /\ plugins = {}
    /\ todo = {}
    /\ init_queue = {}
    /\ init_history = {}
    /\ result = "none"
    /\ calls = << >>
    /\ sends = 0
    /\ sent = NoneSent
    /\ rendered = NoneSent
    /\ last = NoOp
    /\ debug = FALSE
    /\ modules = << >>
    /\ internals = internal_plugins
    /\ temp_path = TRUE
    /\ file_entries = << >>
    /\ file_objects = << >>
    /\ handles = << >>
    /\ disk = << >>
    /\ flast = NoCall
    /\ data_entries = << >>
    /\ instances = << >>
    /\ db = << >>
    /\ dlast = NoCall
    /\ clock = 0
    /\ lines_read = 0
    /\ run = 1
    /\ entries_len \in 0 .. MaxEntries
    /\ batch \in 1 .. MaxBatch
    /\ max_retry \in 0 .. MaxRetry
    /\ batch_idx = 0
    /\ retry = 0
    /\ attempts = << >>

\* What retrieve_data never assigns.
unchangedByRetrieve ==
    UNCHANGED <<plugin_modules, pipeline, task, dep, args, buffers, switches,
                sys_stdout, files, plugins, todo, init_queue, init_history,
                result, calls, history, discovery, filestore, datastore,
                clock, lines_read, run, entries_len, batch, max_retry>>

\* core.main.send_output(text, "stderr") as retrieve_data calls it.
RetrieveSend(text) ==
    sys_stderr' = send_output(text, "stderr", <<NL>>, output_stdout,
                              output_stderr, sys_stdout, sys_stderr,
                              console_stdout, console_stderr)[4]

\* "for batch_idx in range(0, len(entries), batch)" yields the next batch
\* and "retry = 0" runs, or the loop is over and ret_data is returned.
RetrieveBatch ==
    /\ pc = "batch"
    /\ IF batch_idx < entries_len
       THEN /\ pc' = "try"
            /\ attempts' = Append(attempts, 0)
       ELSE /\ pc' = "returned"
            /\ UNCHANGED attempts
    /\ retry' = 0
    /\ UNCHANGED <<batch_idx, sys_stderr, exit_status>>
    /\ unchangedByRetrieve

\* One pass of the try block: the requests succeed and "break" leaves the
\* while loop, or one of them raises.
RetrieveAttempt ==
    /\ pc = "try"
    /\ attempts' = [attempts EXCEPT ![Len(attempts)] = @ + 1]
    /\ RetrieveSend(<<"Fetching entries ", ToString(batch_idx), "...">>)
    /\ \/ /\ pc' = "batch"
          /\ batch_idx' = batch_idx + batch
          /\ UNCHANGED exit_status
       \/ /\ pc' = "except"
          /\ UNCHANGED <<batch_idx, exit_status>>
       \/ /\ pc' = "exited"
          /\ exit_status' = "KeyboardInterrupt"
          /\ UNCHANGED batch_idx
    /\ UNCHANGED retry
    /\ unchangedByRetrieve

\* except Exception: quit when retry > max_retry, else retry += 1.
RetrieveExcept ==
    /\ pc = "except"
    /\ IF retry > max_retry
       THEN /\ RetrieveSend(<<"Too many HTTP errors, quitting...">>)
            /\ pc' = "exited"
            /\ exit_status' = "1"
            /\ UNCHANGED retry
       ELSE /\ RetrieveSend(<<"HTTP error, retrying...">>)
            /\ pc' = "try"
            /\ retry' = retry + 1
            /\ UNCHANGED exit_status
    /\ UNCHANGED <<batch_idx, attempts>>
    /\ unchangedByRetrieve

NextRetrieve ==
    \/ RetrieveBatch
    \/ RetrieveAttempt
    \/ RetrieveExcept

SpecRetrieve == InitRetrieve /\ [][NextRetrieve]_vars

\* ------------------------------------------------- a chain of dependencies
\* A taxonomy module that declares a dependency of its own: pathways and
\* difference depend on taxonomy, and taxonomy on crossref.
taxonomyChained == PluginDef(<<"crossref">>, FALSE, TRUE, TRUE)
ChainedModules == ConnectedModules @@ ("taxonomy" :> taxonomyChained)

\* The main script after connect_plugins registered the chained modules.
InitChain ==
    /\ plugin_modules = ChainedModules
    /\ pipeline \in Pipelines
    /\ pc \in {"task", "list"}
    /\ pc = "list" => pipeline = << >>
    /\ task = 1
    /\ dep = 1
    /\ args = Unbound
    /\ output_stdout = << >>
    /\ output_stderr = << >>
    /\ console_stdout = FALSE
    /\ console_stderr = TRUE
    /\ sys_stdout = << >>
    /\ sys_stderr = << >>
    /\ files = << >>
    /\ exit_status = "running"
    /\ plugins = {}
    /\ todo = {}
    /\ init_queue = {}
    /\ init_history = {}
    /\ result = "none"
    /\ calls = << >>
    /\ sends = 0
    /\ sent = NoneSent
    /\ rendered = NoneSent
    /\ last = NoOp
    /\ Connected

SpecChain == InitChain /\ [][Next]_vars

\* ================================================================== claims

Discovered == DOMAIN plugin_modules
Known == Discovered \cup internal_plugins

\* Number of times the initialize hook of a plugin has been invoked.
InitCount(p) ==
    Cardinality({k \in DOMAIN calls : calls[k].hook = "init" /\ calls[k].plugin = p})

IsUnknownAt(j) == j \in DOMAIN pipeline /\ pipeline[j][1] \notin Known

\* exec_pipeline(pipeline) returned and the final flush ran.
Completed == pc = "done" /\ task > Len(pipeline)

\* ---------------------------------------------------------------------- C1
\* C1: in one process, exec_pipeline invokes the initialize hook of each
\* plugin at most once, however many steps name the plugin or a plugin
\* that depends on it.
C1_InitAtMostOnce == \A p \in Discovered : InitCount(p) <= 1

\* ---------------------------------------------------------------------- C2
\* The requested external plugins and their directly declared dependencies.
Closure ==
    (plugins \cap Discovered) \cup
    UNION {Range(plugin_modules[p].dependencies) : p \in plugins \cap Discovered}

InitExactlyOnce ==
    /\ result = "True"
    /\ \A p \in Closure \cap Discovered :
          InitCount(p) = IF plugin_modules[p].callback_init THEN 1 ELSE 0
    /\ \A k \in DOMAIN calls : calls[k].plugin \in Closure

\* C2 as stated: for every requested set of discovered or internal names,
\* init_plugins invokes the initialize hook of every plugin of the closure
\* exactly once when it is defined, and returns True.
C2_Original ==
    (pc = "returned" /\ plugins \subseteq Known) => InitExactlyOnce

\* C2 as amended: the same, for requested sets whose declared dependencies
\* are all discovered plugins.
C2_InitExactlyOnce ==
    (pc = "returned" /\ plugins \subseteq Known /\ Closure \subseteq Discovered)
        => InitExactlyOnce

\* taxonomy is a dependency of two requested plugins and is initialized once.
C2_Witness ==
    /\ pc = "returned"
    /\ result = "True"
    /\ {"pathways", "difference"} \subseteq plugins
    /\ "taxonomy" \notin plugins
    /\ InitCount("taxonomy") = 1
    /\ InitCount("pathways") = 1

\* ---------------------------------------------------------------------- C3
\* Whether a call belongs to the step that the pipeline has at its index.
CallOfStep(c) ==
    IF c.hook = "final" THEN c.task = Len(pipeline) + 1
    ELSE /\ c.task \in DOMAIN pipeline
         /\ LET name == pipeline[c.task][1]
            IN  IF c.hook = "init"
                THEN /\ name \in Discovered
                     /\ c.plugin \in {name} \cup Range(plugin_modules[name].dependencies)
                ELSE c.plugin = name

\* C3: the steps are processed in the order supplied: the calls made for
\* step i all come before the calls made for step i+1, every call is made
\* for the step the pipeline has at that index, no index is skipped, and
\* while a run hook is running no other hook is invoked.
C3_StepsInOrder ==
    /\ \A k \in DOMAIN calls : CallOfStep(calls[k])
    /\ calls # << >> => calls[1].task = 1
    /\ \A k \in 1..(Len(calls) - 1) :
          calls[k + 1].task \in {calls[k].task, calls[k].task + 1}
    /\ \A j \in DOMAIN pipeline :
          j < task => \E k \in DOMAIN calls : calls[k].task = j
    /\ pc = "running" =>
          calls[Len(calls)] = Call(task, pipeline[task][1], "main", args)

\* A pipeline of two different steps ran to its end.
C3_Witness ==
    /\ Completed
    /\ Len(pipeline) = 2
    /\ pipeline[1][1] = "crossref"
    /\ pipeline[2][1] = "write"
    /\ \E k \in DOMAIN calls : calls[k].hook = "main" /\ calls[k].task = 1
    /\ \E k \in DOMAIN calls : calls[k].hook = "internal" /\ calls[k].task = 2

\* ---------------------------------------------------------------------- C4
\* Position of a call in the step of an external plugin.
Rank(c) ==
    CASE c.hook = "args" -> 1
      [] c.hook = "init" /\ c.plugin # pipeline[c.task][1] -> 2
      [] c.hook = "init" /\ c.plugin = pipeline[c.task][1] -> 3
      [] c.hook = "main" -> 4
      [] OTHER -> 0

CalledBefore(l, name, hook) ==
    \E k \in 1..(l - 1) :
        /\ calls[k].task = calls[l].task
        /\ calls[k].plugin = name
        /\ calls[k].hook = hook

\* C4: within one external step the hooks run in the order parse_args,
\* dependencies' initialize, own initialize, run; when run is invoked, every
\* hook of the step that is defined has been invoked before it.
C4_HookOrder ==
    /\ \A k, l \in DOMAIN calls :
          (k < l /\ calls[k].task = calls[l].task) => Rank(calls[k]) <= Rank(calls[l])
    /\ \A l \in DOMAIN calls :
          calls[l].hook = "main" =>
             LET name == calls[l].plugin
                 def == plugin_modules[name]
             IN  /\ def.callback_args => CalledBefore(l, name, "args")
                 /\ def.callback_init => CalledBefore(l, name, "init")
                 /\ \A d \in Range(def.dependencies) :
                       plugin_modules[d].callback_init => CalledBefore(l, d, "init")

\* The run hook of pathways was invoked, after taxonomy was initialized.
C4_Witness ==
    \E l \in DOMAIN calls :
        /\ calls[l].hook = "main"
        /\ calls[l].plugin = "pathways"
        /\ CalledBefore(l, "taxonomy", "init")

\* ---------------------------------------------------------------------- C5
RECURSIVE Contains(_, _)
\* Whether the text has the line as a contiguous part.
Contains(text, line) ==
    IF Len(text) < Len(line) THEN FALSE
    ELSE \/ SubSeq(text, 1, Len(line)) = line
         \/ Contains(Tail(text), line)

\* The process ended at a step that names an unknown plugin.
EndedAtUnknown == pc = "done" /\ IsUnknownAt(task)

UnknownName == pipeline[task][1]

\* Whether the text has the name, in quotes, before the end of a line.
NamedIn(text) == Contains(text, <<QUOTE, UnknownName, QUOTE, NL>>)

\* C5 as stated: at a step naming an unknown plugin the process ends with a
\* non-zero status and a line with the plugin name is on the error stream,
\* for every setting of the stderr switch.
C5_Original ==
    EndedAtUnknown =>
        /\ exit_status = "1"
        /\ NamedIn(sys_stderr)

\* C5 as amended: the process ends with status 1; the line with the plugin
\* name is on the error stream when the stderr target is streamed, and it
\* is the last fragment of the stderr buffer and not on the error stream
\* when the stderr target is buffered.
C5_InvalidPlugin ==
    EndedAtUnknown =>
        /\ exit_status = "1"
        /\ console_stderr => NamedIn(sys_stderr)
        /\ ~console_stderr =>
              /\ output_stderr # << >>
              /\ NamedIn(output_stderr[Len(output_stderr)])
              /\ ~NamedIn(sys_stderr)

C5_Witness ==
    /\ EndedAtUnknown
    /\ pipeline[task][1] = "doesnotexist"
    /\ console_stderr
    /\ exit_status = "1"

\* ---------------------------------------------------------------------- C6
\* C6: when the pipeline has an unknown plugin name at any position, no
\* hook and no internal function of any step is invoked.
C6_NoStepExecuted ==
    (\E j \in DOMAIN pipeline : IsUnknownAt(j)) => calls = << >>

\* ---------------------------------------------------------------------- C7
RenderStep(target) == rendered'[target] # rendered[target]
FailedRenderStep(target) ==
    exit_status # "OSError" /\ exit_status' = "OSError" /\ last'.target = target
SendStep == sends' # sends

\* C7: render_output on stdout empties the stdout buffer, also when the
\* file cannot be opened, and a render of stdout that follows a render of
\* stdout with no send_output in between renders the empty text.
C7_DestructiveRead ==
    [][/\ (RenderStep("stdout") \/ FailedRenderStep("stdout")) =>
             /\ Len(output_stdout') = 0
             /\ (last.op = "render" /\ last.target = "stdout") =>
                    last'.text = EmptyStr
       /\ (RenderStep("stdout") /\ last.op = "render" /\ last.target = "stdout") =>
             rendered'["stdout"][Len(rendered'["stdout"])] = EmptyStr]_vars

\* A fragment was rendered from stdout, and the next render was empty.
C7_Witness ==
    /\ pc = "api"
    /\ sends = 1
    /\ Len(rendered["stdout"]) = 2
    /\ rendered["stdout"][1] # EmptyStr
    /\ rendered["stdout"][2] = EmptyStr
    /\ last.op = "render"
    /\ output_stdout = << >>

\* ---------------------------------------------------------------------- C8
FinalCalls == {k \in DOMAIN calls : calls[k].hook = "final"}

\* C8: after all steps have executed there is exactly one final flush, it is
\* the last call, the stdout buffer is empty when the process ends, and the
\* fragments buffered for stdout have been rendered once each, in order;
\* before the end, and unless a write step failed to open its file, what
\* was buffered is what was rendered followed by what is still buffered.
C8_FinalFlush ==
    /\ exit_status # "OSError" =>
          Join(sent["stdout"]) = Join(rendered["stdout"]) \o Join(output_stdout)
    /\ Completed =>
          /\ exit_status = "0"
          /\ Cardinality(FinalCalls) = 1
          /\ calls[Len(calls)].hook = "final"
          /\ output_stdout = << >>
          /\ Join(rendered["stdout"]) = Join(sent["stdout"])

\* The final flush rendered a fragment that a hook had sent.
C8_Witness ==
    /\ Completed
    /\ Len(sent["stdout"]) >= 1
    /\ rendered["stdout"][Len(rendered["stdout"])] # EmptyStr

\* ---------------------------------------------------------------------- C9
Buffer(target) == IF target = "stdout" THEN output_stdout ELSE output_stderr
BufferNext(target) == IF target = "stdout" THEN output_stdout' ELSE output_stderr'
Other(target) == IF target = "stdout" THEN "stderr" ELSE "stdout"

\* C9: a send on a buffered target appends text \o suffix to the end of that
\* target's buffer and leaves the other buffer unchanged; a send on a
\* streamed target leaves both buffers unchanged; a render of a target
\* renders the fragments buffered since the last render, in send order.
C9_SendAppends ==
    [][/\ SendStep => last'.op = "send"
       /\ \A t \in Targets :
             (SendStep /\ last'.target = t) =>
                /\ BufferNext(Other(t)) = Buffer(Other(t))
                /\ BufferNext(t) = IF Console(t) THEN Buffer(t)
                                   ELSE Append(Buffer(t), last'.text \o last'.suffix)
       /\ \A t \in Targets :
             RenderStep(t) =>
                /\ last'.text = Join(Buffer(t))
                /\ Join(rendered'[t]) = Join(sent[t])]_vars

\* Two fragments were buffered on a target and rendered as one text.
C9_Witness ==
    \E t \in Targets :
        /\ pc = "api"
        /\ Len(sent[t]) = 2
        /\ sent[t][1] # sent[t][2]
        /\ sent[t][1][Len(sent[t][1])] = NL
        /\ Len(rendered[t]) = 1
        /\ rendered[t][1] = sent[t][1] \o sent[t][2]

\* --------------------------------------------------------------------- C10
\* A send is buffered exactly when the switch of its own target is off.
Independent ==
    last.op = "send" =>
        last.buffered = ~(IF last.target = "stdout" THEN last.cout ELSE last.cerr)

\* C10 as stated: both targets are buffered before plugin code has run, and
\* whether a send is buffered depends on the switch of its target only.
C10_Original ==
    /\ calls = << >> => (~console_stdout /\ ~console_stderr)
    /\ Independent

\* C10 as amended: before plugin code has run stdout is buffered and stderr
\* is streamed, and whether a send is buffered depends on the switch of its
\* target only.
C10_Switches ==
    /\ calls = << >> => (~console_stdout /\ console_stderr)
    /\ Independent

\* stdout is still buffered after the stderr switch was changed.
C10_Witness ==
    /\ last.op = "send"
    /\ last.target = "stdout"
    /\ ~last.cout
    /\ ~last.cerr
    /\ last.buffered

\* --------------------------------------------------------------------- C11
DiscoveryEnded == pc \in {"connected", "raised"}
Fails(m) ==
    \/ m.outcome = "import_raises"
    \/ m.outcome = "connect_raises" /\ HasPluginConnect(m.name)
Loadable(m) == ~Fails(m) /\ HasPluginConnect(m.name)
ConnectCount(name) ==
    Cardinality({k \in DOMAIN calls :
                    calls[k].hook = "connect" /\ calls[k].plugin = name})

\* C11: when connect_plugins has ended, flush and write are registered; in
\* non-debug mode it has returned, every module whose import or
\* plugin_connect fails is left out with an "Error loading" line written,
\* and every other module with a plugin_connect is registered and was
\* connected exactly once; in debug mode a failing module makes it raise.
C11_PerModule ==
    DiscoveryEnded =>
       /\ internals = {"flush", "write"}
       /\ ~debug =>
             /\ pc = "connected"
             /\ \A k \in DOMAIN modules :
                   /\ Loadable(modules[k]) =>
                         /\ modules[k].name \in DOMAIN plugin_modules
                         /\ ConnectCount(modules[k].name) = 1
                   /\ Fails(modules[k]) =>
                         /\ modules[k].name \notin DOMAIN plugin_modules
                         /\ Contains(sys_stderr,
                                     ErrorLoadingText(modules[k].name) \o <<NL>>)
       /\ (debug /\ \E k \in DOMAIN modules : Fails(modules[k])) =>
             pc = "raised"

\* --------------------------------------------------------------------- C12
\* The path set_path gave the entry when it was constructed.
RegisteredPath(entry) == set_path(entry.decl.name, entry.decl.ftype)

\* The step is a call of prepare on entry number id.
PrepareStep(id) ==
    flast'.n = flast.n + 1 /\ flast'.op = "prepare" /\ flast'.id = id

\* An earlier prepare decompressed the entry's file and the decompressed file
\* is on disk.
AlreadyDecompressed(id) ==
    /\ file_objects[id].options = FOPT_GZIP_DECOMPRESS
    /\ file_objects[id].path # RegisteredPath(file_objects[id])
    /\ file_objects[id].path \in DOMAIN disk

\* C12: a prepare of a gzip-then-decompress entry whose decompressed file
\* already exists returns without raising, does not run the decompression,
\* and leaves the decompressed file with the content it had.
C12_NoSecondDecompression ==
    [][\A id \in DOMAIN file_objects :
          (PrepareStep(id) /\ AlreadyDecompressed(id)) =>
             /\ flast'.result = "ok"
             /\ ~flast'.gunzip
             /\ file_objects[id].path \in DOMAIN disk'
             /\ disk'[file_objects[id].path] = disk[file_objects[id].path]]_vars

\* --------------------------------------------------------------------- C13
\* C13: the path of an entry only changes when the entry has the option
\* gzip-then-decompress and still has the path computed at registration, the
\* new path is that path with the last three characters stripped, and the
\* step is a prepare whose decompression succeeded.
C13_PathStable ==
    [][\A id \in DOMAIN file_objects :
          file_objects'[id].path # file_objects[id].path =>
             /\ file_objects[id].options = FOPT_GZIP_DECOMPRESS
             /\ file_objects[id].path = RegisteredPath(file_objects[id])
             /\ file_objects'[id].path =
                   StripSuffix(RegisteredPath(file_objects[id]))
             /\ PrepareStep(id)
             /\ flast'.result = "ok"
             /\ flast'.gunzip]_vars

\* --------------------------------------------------------------------- C14
\* The handles opened through entry number id that are open.
OpenHandles(hs, id) == {h \in DOMAIN hs : hs[h].owner = id /\ hs[h].open}

\* The step is a call of get_handle on entry number id.
GetHandleStep(id) ==
    flast'.n = flast.n + 1 /\ flast'.op = "get_handle" /\ flast'.id = id

\* C14: at most one handle opened through an entry is open; get_handle
\* without a mode returns the entry's current handle and changes nothing;
\* get_handle with a mode leaves every handle that was open through the
\* entry closed and, when the open succeeds, the handle it returns is a new
\* one and the only one open through the entry.
C14_OneOpenHandle ==
    [][\A id \in DOMAIN file_objects' :
          /\ Cardinality(OpenHandles(handles', id)) <= 1
          /\ GetHandleStep(id) =>
                IF flast'.mode = None
                THEN /\ flast'.returned = file_objects[id].handle
                     /\ UNCHANGED <<handles, file_objects, disk>>
                ELSE /\ \A h \in OpenHandles(handles, id) : ~handles'[h].open
                     /\ flast'.result = "ok" =>
                           /\ flast'.returned \notin DOMAIN handles
                           /\ file_objects'[id].handle = flast'.returned
                           /\ OpenHandles(handles', id) = {flast'.returned}]_vars

\* An entry was opened twice and then asked for its handle without a mode:
\* the first handle is closed, the second is open and is the one returned.
C14_Witness ==
    /\ flast.op = "get_handle"
    /\ flast.mode = None
    /\ flast.returned # 0
    /\ OpenHandles(handles, flast.id) = {flast.returned}
    /\ \E h \in DOMAIN handles :
          handles[h].owner = flast.id /\ ~handles[h].open

\* --------------------------------------------------------------------- C15
\* The entries FileStore._entries holds.
RegisteredIds == {file_entries[key] : key \in DOMAIN file_entries}

NoHandleOpen == \A id \in RegisteredIds : OpenHandles(handles, id) = {}

FirstCreated(name) ==
    CHOOSE i \in DOMAIN instances :
       /\ instances[i].name = name
       /\ \A j \in DOMAIN instances : instances[j].name = name => i <= j

\* C16: a lookup of a registered name returns the object the first call with
\* that name created.
C16_FirstWins ==
    \A name \in DOMAIN data_entries :
       get_entry(data_entries, name) = FirstCreated(name)

\* --------------------------------------------------------------------- C17
\* C17: after DataStore.destroy no registered store has an open connection.
C17_ConnectionsClosed ==
    (pc = "destroyed" /\ dlast.op = "destroy") =>
       \A name \in DOMAIN data_entries :
          ~instances[get_entry(data_entries, name)].open

\* --------------------------------------------------------------------- C18
WriteOps ==
    {"create_table", "insert_rows", "delete_rows", "exec_query", "update_age"}

\* The step is a write call on object number i that returned.
WriteStep(i) ==
    /\ dlast'.n = dlast.n + 1
    /\ dlast'.op \in WriteOps
    /\ dlast'.id = i
    /\ dlast'.result = "ok"

\* C18: a write call made with the transaction flag unset leaves nothing
\* uncommitted when it returns, and a write call made with the flag set
\* commits nothing.
C18_CommitDiscipline ==
    [][\A i \in DOMAIN instances :
          WriteStep(i) =>
             IF instances[i].transaction
             THEN db' = db
             ELSE instances'[i].pending = << >> /\ ~instances'[i].txn]_vars

\* --------------------------------------------------------------------- C19
\* C19: every process_trans call flips the transaction flag, so the flag is
\* set exactly after an odd number of calls.
C19_PureToggle ==
    \A i \in DOMAIN instances :
       instances[i].transaction = (instances[i].toggles % 2 = 1)

\* --------------------------------------------------------------------- C20
\* The step is the callers' exec_query(name, parameters).fetchone() on
\* object number i.
ExecQueryStep(i) ==
    /\ dlast'.n = dlast.n + 1
    /\ dlast'.op = "exec_query"
    /\ dlast'.id = i

\* With a defined name the registered text was executed with the given
\* parameters: the cursor returned is that statement's, and a statement that
\* writes is the last one of the transaction or of the database.
ExecutedRegistered(i) ==
    LET stmt == Statement(instances[i].queries[dlast'.name], dlast'.parameters)
        file == instances[i].filename
    IN  dlast'.result = "ok" =>
           /\ dlast'.returned = stmt
           /\ IsWrite(stmt) =>
                 IF instances[i].txn
                 THEN instances'[i].pending = Append(instances[i].pending, stmt)
                 ELSE db'[file] = Append(db[file], stmt)

\* C20 as claimed: with an undefined name the call changes nothing and the
\* caller consumes what it returns without an error.
C20_Original ==
    [][\A i \in DOMAIN instances :
          ExecQueryStep(i) =>
             IF dlast'.name \notin DOMAIN instances[i].queries
             THEN /\ dlast'.result = "ok"
                  /\ dlast'.consumed = "ok"
                  /\ UNCHANGED <<instances, db, data_entries>>
             ELSE ExecutedRegistered(i)]_vars

\* C20: with an undefined name exec_query raises nothing, returns None and
\* changes nothing, and the callers' fetchone() on that None raises
\* AttributeError; with a defined name the registered text is executed with
\* the given parameters.
C20_RunQuery ==
    [][\A i \in DOMAIN instances :
          ExecQueryStep(i) =>
             IF dlast'.name \notin DOMAIN instances[i].queries
             THEN /\ dlast'.result = "ok"
                  /\ dlast'.returned = NoneObject
                  /\ dlast'.consumed = "AttributeError"
                  /\ UNCHANGED <<instances, db, data_entries>>
             ELSE ExecutedRegistered(i)]_vars

\* A store with a defined query was asked for an undefined one.
C20_Witness ==
    /\ dlast.op = "exec_query"
    /\ dlast.name \notin DOMAIN instances[dlast.id].queries
    /\ instances[dlast.id].queries # << >>
    /\ dlast.returned = NoneObject
    /\ exit_status = "AttributeError"

\* --------------------------------------------------------------------- C21
\* The enzyme table as the connection of the pathways store reads it.
EnzymeLog == Visible(instances, db, 1)
EnzymeTable == Table(EnzymeLog, "enzyme")

\* The rows handed to the insert_rows calls that returned, in call order.
RECURSIVE Written(_)
Written(log) ==
    IF log = << >>
    THEN << >>
    ELSE (IF Head(log).sql = "INSERT OR IGNORE INTO"
          THEN Tail(Head(log).parameters)
          ELSE << >>) \o Written(Tail(log))

\* The first row written with the key.
FirstWritten(w, key) ==
    w[CHOOSE j \in DOMAIN w :
          w[j][1] = key /\ \A m \in 1 .. j - 1 : w[m][1] # key]

\* C21: after any insert_rows calls on a table with a primary key, also
\* ones whose rows overlap, the table holds one row per distinct key
\* written, that row is the one written first, and no call failed.
C21_FirstWriteWins ==
    LET t == EnzymeTable
        w == Written(EnzymeLog)
    IN  /\ \A key \in Keys :
              Cardinality({j \in DOMAIN t : t[j][1] = key})
                  = IF \E j \in DOMAIN w : w[j][1] = key THEN 1 ELSE 0
        /\ \A j \in DOMAIN t : t[j] = FirstWritten(w, t[j][1])
        /\ dlast.op = "insert_rows" => dlast.result = "ok"

\* Two insert_rows calls returned whose rows share a key with different
\* values.
C21_Witness ==
    /\ dlast.op = "insert_rows"
    /\ dlast.result = "ok"
    /\ \E a \in DOMAIN EnzymeLog, b \in DOMAIN EnzymeLog :
          /\ a < b
          /\ EnzymeLog[a].sql = "INSERT OR IGNORE INTO"
          /\ EnzymeLog[b].sql = "INSERT OR IGNORE INTO"
          /\ \E j \in 2 .. Len(EnzymeLog[a].parameters),
                m \in 2 .. Len(EnzymeLog[b].parameters) :
                /\ EnzymeLog[a].parameters[j][1] = EnzymeLog[b].parameters[m][1]
                /\ EnzymeLog[a].parameters[j][2] # EnzymeLog[b].parameters[m][2]

\* --------------------------------------------------------------------- C22
\* The UPDATE statements of update_age(name) the connection sees.
Marks(name) ==
    {k \in DOMAIN EnzymeLog :
        /\ EnzymeLog[k].sql = "UPDATE age SET modified"
        /\ EnzymeLog[k].parameters[1] = name}

Latest(S) == CHOOSE k \in S : \A m \in S : m <= k

\* The time of the last update_age(name).
MarkedAt(name) == EnzymeLog[Latest(Marks(name))].parameters[2]

AgeTable == Table(EnzymeLog, "age")

\* C22: get_expired(name, days) returns true when update_age(name) was
\* never called, false when it was called at the same instant, and
\* otherwise true exactly when the time since the last update_age(name)
\* exceeds days; the age table holds one row per name marked.
C22_Freshness ==
    /\ (dlast.op = "get_expired" /\ dlast.result = "ok") =>
          LET days == dlast.parameters[1]
              now == dlast.parameters[2]
          IN  /\ Marks(dlast.name) = {} => dlast.returned.value = TRUE
              /\ (Marks(dlast.name) # {} /\ MarkedAt(dlast.name) = now) =>
                    dlast.returned.value = FALSE
              /\ Marks(dlast.name) # {} =>
                    dlast.returned.value
                        = (now - MarkedAt(dlast.name) > days * TicksPerDay)
    /\ \A name \in AgeNames :
          Cardinality({j \in DOMAIN AgeTable : AgeTable[j][1] = name})
              = IF Marks(name) = {} THEN 0 ELSE 1

\* get_expired answered true for a table marked fresh more than the
\* threshold ago, the table having been marked twice.
C22_Witness ==
    /\ dlast.op = "get_expired"
    /\ Cardinality(Marks(dlast.name)) = 2
    /\ dlast.returned.value = TRUE
    /\ dlast.parameters[1] = 1

\* --------------------------------------------------------------------- C23
\* The committed rows of the uniprot table, and the rows a complete load of
\* the download of run r leaves.
Committed == Table(db[CrossrefFile], "uniprot")
FullLoad(r) == <<GoodLine(r, "P1"), GoodLine(r, "P2")>>

\* The committed UPDATE statements of update_age("uniprot").
UniprotMarks ==
    {k \in DOMAIN db[CrossrefFile] :
        /\ db[CrossrefFile][k].sql = "UPDATE age SET modified"
        /\ db[CrossrefFile][k].parameters[1] = "uniprot"}

\* The table is not marked fresh: never marked, or marked more than the
\* threshold ago.
Stale ==
    \/ UniprotMarks = {}
    \/ clock - db[CrossrefFile][Latest(UniprotMarks)].parameters[2]
          > RefreshDays * TicksPerDay

BeforeEnd == {"prepare", "begin", "delete", "insert"}

\* The committed table is never partially cleared or partially loaded.
C23_Whole ==
    \/ Committed = << >> /\ UniprotMarks = {}
    \/ \E r \in 1 .. run : Committed = FullLoad(r)

\* The table is marked only when the transaction has ended and the load of
\* this run is committed; a run that ends before the end call leaves the
\* table stale, it is still stale when the next run starts, and a run that
\* finds it stale refreshes.
C23_Step ==
    /\ UniprotMarks' # UniprotMarks =>
          /\ ~instances[1].txn
          /\ instances[1].pending = << >>
          /\ Committed = FullLoad(run)
          /\ Committed' = Committed
    /\ (pc \in BeforeEnd /\ pc' = "exited") => Stale'
    /\ (pc = "exited" /\ Stale /\ pc' = "populate") => Stale'
    /\ (pc = "populate" /\ Stale) => pc' = "prepare"

\* C23: in populate_database the delete and all insertions are committed
\* together, so the committed table is never partially cleared or loaded;
\* the table is marked fresh only after the transaction ended; a refresh
\* interrupted before the end call leaves the table not marked fresh and
\* the next run refreshes again.
C23_Refresh == []C23_Whole /\ [][C23_Step]_vars

\* The second run was interrupted with the delete and an insertion
\* pending, while the committed table holds the complete load of the first.
C23_Witness ==
    /\ run = 2
    /\ pc = "exited"
    /\ exit_status = "KeyboardInterrupt"
    /\ Len(instances[1].pending) >= 2
    /\ Committed = FullLoad(1)

\* --------------------------------------------------------------------- C24
\* C24: with the maximum max_retry, no batch is attempted more than
\* max_retry + 1 times, the process ends with the diagnostic on stderr and
\* exit status 1 once the attempts of a batch are used up, and retry is
\* zero when the first attempt of a batch is made.
C24_RetryLimit ==
    /\ \A k \in DOMAIN attempts : attempts[k] <= max_retry + 1
    /\ (pc = "exited" /\ exit_status = "1") =>
          /\ attempts[Len(attempts)] = max_retry + 1
          /\ Contains(sys_stderr, <<"Too many HTTP errors, quitting...", NL>>)
    /\ (pc = "try" /\ attempts[Len(attempts)] = 0) => retry = 0

\* --------------------------------------------------------------------- C25
\* The plugins whose initialize hook was invoked while handling step i.
InitializedAt(i) ==
    {calls[k].plugin : k \in {j \in DOMAIN calls :
                                 calls[j].task = i /\ calls[j].hook = "init"}}

\* The plugin of step i and the dependencies it declares itself.
DirectOf(i) ==
    Range(plugin_modules[pipeline[i][1]].dependencies) \cup {pipeline[i][1]}

\* Step i is past its initialization.
PastInit(i) == task > i \/ (task = i /\ pc \in {"main", "running"})

\* C25: a step for plugin P invokes the initialize hooks of P's declared
\* dependencies and of P, of all of them that have one once the step is
\* past its initialization, and of no other plugin, in particular of no
\* dependency of a dependency.
C25_OneLevel ==
    \A i \in DOMAIN pipeline :
        pipeline[i][1] \in DOMAIN plugin_modules =>
            /\ InitializedAt(i) \subseteq DirectOf(i)
            /\ PastInit(i) =>
                  InitializedAt(i)
                      = {q \in DirectOf(i) : plugin_modules[q].callback_init}

\* The run hook of pathways was invoked after taxonomy was initialized,
\* while crossref, which taxonomy declares, never was.
C25_Witness ==
    /\ pc = "running"
    /\ CurrentName = "pathways"
    /\ "crossref" \in Range(plugin_modules["taxonomy"].dependencies)
    /\ InitializedAt(task) = {"taxonomy", "pathways"}
    /\ \A k \in DOMAIN calls : calls[k].plugin # "crossref"

\* --------------------------------------------------------------------- C26
\* C26: the value handed to the run hook of step i is the result of
\* parsing the argument string of step i.
C26_OwnArgs ==
    \A k \in DOMAIN calls :
        calls[k].hook = "main" =>
            calls[k].args = ParseArgs(pipeline[calls[k].task][2])

\* --------------------------------------------------------------------- C27
\* C27: when the process has ended after FileStore.init, the temporary
\* directory is removed.
C27_TempRemoved == pc \in {"done", "listed"} => ~temp_path

\* --------------------------------------------------------------------- C29
\* Step i names a registered plugin that declares a dependency which is
\* not registered.
MissingDependency(i) ==
    /\ pipeline[i][1] \in DOMAIN plugin_modules
    /\ \E q \in Range(plugin_modules[pipeline[i][1]].dependencies) :
          q \notin DOMAIN plugin_modules

\* C29: at a step whose plugin declares a dependency that is not
\* registered, no initialize hook and no run hook is invoked, and nothing
\* of a later step is executed.
C29_FailsEarly ==
    \A i \in DOMAIN pipeline :
        MissingDependency(i) =>
            /\ task <= i
            /\ \A k \in DOMAIN calls :
                  /\ calls[k].task <= i
                  /\ calls[k].task = i => calls[k].hook = "args"

\* The process ended with the KeyError of the missing dependency at a step
\* that is not the last.
C29_Witness ==
    /\ pc = "done"
    /\ exit_status = "KeyError"
    /\ task < Len(pipeline)
    /\ MissingDependency(task)

\* --------------------------------------------------------------------- C28
\* C28: on every DataStore object the flag self.transaction is set exactly
\* when a transaction is open on its connection.
C28_FlagMatches ==
    \A i \in DOMAIN instances : instances[i].transaction = instances[i].txn

\* --------------------------------------------------------------------- C30
\* C30: expired() called on a registered entry whose file exists returns
\* without raising.
C30_ExpiredAnswers ==
    (/\ flast.op = "expired"
     /\ get_path(file_objects[flast.id], disk) \in DOMAIN disk)
        => flast.result = "ok"

====
